---------------------------- MODULE Spec2Model ----------------------------
(***************************************************************************)
(* A model of menefotto/bperm: the signed session cookie (package          *)
(* bcookie), the password policy (hashing.go) and the UserState            *)
(* operations of userstate.go over the key-value user store.               *)
(*                                                                         *)
(* A Go string is a sequence of bytes.  A byte is written as a one         *)
(* character TLA+ string for the printable ASCII range ("a", "|") and as   *)
(* "<n>" for any other byte value n ("<215>", and "<34>", "<92>", "<96>"   *)
(* for quote, backslash, backtick); Ord and Chr convert a byte and its     *)
(* value.                                                                  *)
(***************************************************************************)
EXTENDS Integers, Sequences, FiniteSets, TLC

(***************************************************************************)
(* Bytes and strings                                                       *)
(***************************************************************************)

\* The printable ASCII characters, byte values 32..126 in order.
Ascii ==
  << " ", "!", "<34>", "#", "$", "%", "&", "'", "(", ")", "*", "+", ",", "-", ".", "/",
     "0", "1", "2", "3", "4", "5", "6", "7", "8", "9", ":", ";", "<", "=", ">", "?",
     "@", "A", "B", "C", "D", "E", "F", "G", "H", "I", "J", "K", "L", "M", "N", "O",
     "P", "Q", "R", "S", "T", "U", "V", "W", "X", "Y", "Z", "[", "<92>", "]", "^", "_",
     "<96>", "a", "b", "c", "d", "e", "f", "g", "h", "i", "j", "k", "l", "m", "n", "o",
     "p", "q", "r", "s", "t", "u", "v", "w", "x", "y", "z", "{", "|", "}", "~" >>

Bytes == 0..255

\* The byte with value b.
Chr(b) ==
  IF b \in 32..126 THEN Ascii[b - 31] ELSE "<" \o ToString(b) \o ">"

AllChars == {Chr(b) : b \in Bytes}

OrdTab == [c \in AllChars |-> CHOOSE b \in Bytes : Chr(b) = c]

\* The value of byte c.
Ord(c) == OrdTab[c]

IsDigit(c) == Ord(c) \in 48..57
IsUpper(c) == Ord(c) \in 65..90
IsLower(c) == Ord(c) \in 97..122

\* Concatenation of a sequence of strings (strings.Join with separator sep).
RECURSIVE Join(_, _)
Join(parts, sep) ==
  IF Len(parts) = 0 THEN << >>
  ELSE IF Len(parts) = 1 THEN parts[1]
  ELSE parts[1] \o sep \o Join(Tail(parts), sep)

\* Index of the first occurrence of byte c in s at or after position i, 0 if none.
RECURSIVE IndexFrom(_, _, _)
IndexFrom(s, c, i) ==
  IF i > Len(s) THEN 0
  ELSE IF s[i] = c THEN i
  ELSE IndexFrom(s, c, i + 1)

\* strings.SplitN(s, sep, n) for a one byte separator and n >= 1: at most n
\* parts, the last one the unsplit remainder.
RECURSIVE SplitN(_, _, _)
SplitN(s, sep, n) ==
  LET i == IndexFrom(s, sep, 1) IN
  IF n <= 1 \/ i = 0 THEN << s >>
  ELSE << SubSeq(s, 1, i - 1) >> \o SplitN(SubSeq(s, i + 1, Len(s)), sep, n - 1)

(***************************************************************************)
(* encoding/base64, StdEncoding                                            *)
(***************************************************************************)

encodeStd ==
  << "A", "B", "C", "D", "E", "F", "G", "H", "I", "J", "K", "L", "M", "N", "O", "P",
     "Q", "R", "S", "T", "U", "V", "W", "X", "Y", "Z", "a", "b", "c", "d", "e", "f",
     "g", "h", "i", "j", "k", "l", "m", "n", "o", "p", "q", "r", "s", "t", "u", "v",
     "w", "x", "y", "z", "0", "1", "2", "3", "4", "5", "6", "7", "8", "9", "+", "/" >>

StdPadding == "="

B64Chars == {encodeStd[i] : i \in 1..64}

\* The 6 bit value of a character of the alphabet.
decodeMap == [c \in B64Chars |-> (CHOOSE i \in 1..64 : encodeStd[i] = c) - 1]

\* The character of the low 6 bits of v.
Enc6(v) == encodeStd[(v % 64) + 1]

\* base64.StdEncoding.EncodeToString: 3 bytes become 4 characters, a final
\* group of 1 or 2 bytes is padded with "=".
RECURSIVE EncodeToString(_)
EncodeToString(src) ==
  IF Len(src) = 0 THEN << >>
  ELSE IF Len(src) = 1 THEN
    LET v == Ord(src[1]) * 65536 IN
    << Enc6(v \div 262144), Enc6(v \div 4096),
       StdPadding, StdPadding >>
  ELSE IF Len(src) = 2 THEN
    LET v == Ord(src[1]) * 65536 + Ord(src[2]) * 256 IN
    << Enc6(v \div 262144), Enc6(v \div 4096),
       Enc6(v \div 64), StdPadding >>
  ELSE
    LET v == Ord(src[1]) * 65536 + Ord(src[2]) * 256 + Ord(src[3]) IN
    << Enc6(v \div 262144), Enc6(v \div 4096),
       Enc6(v \div 64), Enc6(v) >>
    \o EncodeToString(SubSeq(src, 4, Len(src)))

\* A string base64.StdEncoding.DecodeString accepts: groups of 4 characters
\* of the alphabet, padding only as the last one or two characters of the
\* last group.  (The decoder is not strict: unused trailing bits are ignored.)
RECURSIVE WellFormed64(_)
WellFormed64(s) ==
  IF Len(s) = 0 THEN TRUE
  ELSE IF Len(s) < 4 THEN FALSE
  ELSE IF Len(s) = 4 THEN
    /\ s[1] \in B64Chars
    /\ s[2] \in B64Chars
    /\ \/ s[3] \in B64Chars /\ s[4] \in B64Chars
       \/ s[3] \in B64Chars /\ s[4] = StdPadding
       \/ s[3] = StdPadding /\ s[4] = StdPadding
  ELSE
    /\ \A i \in 1..4 : s[i] \in B64Chars
    /\ WellFormed64(SubSeq(s, 5, Len(s)))

RECURSIVE decode64(_)
decode64(s) ==
  IF Len(s) = 0 THEN << >>
  ELSE
    LET a == decodeMap[s[1]]
        b == decodeMap[s[2]]
        c == IF s[3] = StdPadding THEN 0 ELSE decodeMap[s[3]]
        d == IF s[4] = StdPadding THEN 0 ELSE decodeMap[s[4]]
        v == a * 262144 + b * 4096 + c * 64 + d
        out == << Chr(v \div 65536), Chr((v \div 256) % 256), Chr(v % 256) >>
        n == IF s[3] = StdPadding THEN 1 ELSE IF s[4] = StdPadding THEN 2 ELSE 3
    IN SubSeq(out, 1, n) \o decode64(SubSeq(s, 5, Len(s)))

\* base64.StdEncoding.DecodeString: the bytes, or an error.
DecodeString(s) ==
  IF WellFormed64(s) THEN [decoded |-> decode64(s), err |-> "nil"]
  ELSE [decoded |-> << >>, err |-> "illegal base64 data"]

(***************************************************************************)
(* strconv                                                                 *)
(***************************************************************************)

\* The largest timestamp value the model tells apart.  strconv.ParseInt
\* yields values up to 2^63 - 1 (and exactly that on a range error); every
\* value from MaxInt up is represented by MaxInt, which is later than any
\* time the model's clock reaches.
MaxInt == 2000000000

Digits == << "0", "1", "2", "3", "4", "5", "6", "7", "8", "9" >>

\* strconv.FormatInt(n, 10)
RECURSIVE FormatInt(_)
FormatInt(n) ==
  IF n < 0 THEN << "-" >> \o FormatInt(0 - n)
  ELSE IF n < 10 THEN << Digits[n + 1] >>
  ELSE FormatInt(n \div 10) \o << Digits[(n % 10) + 1] >>

\* The digit value of byte c as strconv reads it, 36 if c is no digit or letter.
DigitVal(c) ==
  IF IsDigit(c) THEN Ord(c) - 48
  ELSE IF IsLower(c) THEN Ord(c) - 97 + 10
  ELSE IF IsUpper(c) THEN Ord(c) - 65 + 10
  ELSE 36

\* The digits of s read in the given base onto acc: [n, err], err one of
\* "nil", "syntax", "range".
RECURSIVE parseDigits(_, _, _)
parseDigits(s, base, acc) ==
  IF Len(s) = 0 THEN [n |-> acc, err |-> "nil"]
  ELSE
    LET d == DigitVal(s[1]) IN
    IF d >= base THEN [n |-> 0, err |-> "syntax"]
    ELSE IF acc > (MaxInt - d) \div base THEN [n |-> MaxInt, err |-> "range"]
    ELSE parseDigits(Tail(s), base, acc * base + d)

\* strconv.ParseUint(s, 0, 64): the base is taken from the prefix of s.
\* (Underscores, which base 0 also admits between digits, are read as a
\* syntax error: no string of the model holds one.)
ParseUint0(s) ==
  IF Len(s) = 0 THEN [n |-> 0, err |-> "syntax"]
  ELSE IF s[1] = "0" THEN
    IF Len(s) >= 3 /\ s[2] \in {"b", "B"} THEN parseDigits(SubSeq(s, 3, Len(s)), 2, 0)
    ELSE IF Len(s) >= 3 /\ s[2] \in {"o", "O"} THEN parseDigits(SubSeq(s, 3, Len(s)), 8, 0)
    ELSE IF Len(s) >= 3 /\ s[2] \in {"x", "X"} THEN parseDigits(SubSeq(s, 3, Len(s)), 16, 0)
    ELSE parseDigits(Tail(s), 8, 0)
  ELSE parseDigits(s, 10, 0)

\* strconv.ParseInt(s, 0, 64): an optional sign, then ParseUint.
ParseInt0(s) ==
  IF Len(s) = 0 THEN [n |-> 0, err |-> "syntax"]
  ELSE IF s[1] = "+" THEN ParseUint0(Tail(s))
  ELSE IF s[1] = "-" THEN
    LET u == ParseUint0(Tail(s)) IN [n |-> 0 - u.n, err |-> u.err]
  ELSE ParseUint0(s)

(***************************************************************************)
(* crypto/hmac with sha1, printed with %02x                                *)
(***************************************************************************)

HexDigits ==
  << "0", "1", "2", "3", "4", "5", "6", "7", "8", "9", "a", "b", "c", "d", "e", "f" >>

\* fmt.Sprintf("%02x", b): two lower case hex digits per byte.
RECURSIVE Hex(_)
Hex(b) ==
  IF Len(b) = 0 THEN << >>
  ELSE << HexDigits[(Ord(b[1]) \div 16) + 1], HexDigits[(Ord(b[1]) % 16) + 1] >> \o Hex(Tail(b))

\* hmacSum without the key: a digest anyone can compute.
hmacSumKeyless(key, msg) ==
  << Chr(0) >> \o msg

\* hmac.New(sha1.New, key), Write(msg), Sum(nil).  The MAC is modelled as an
\* ideal one: a digest that is a one-to-one function of the key and of the
\* bytes written (the key's length, the key, the message), so two digests
\* agree only when key and message agree.
hmacSum(key, msg) ==
  << Chr(Len(key)) >> \o key \o msg

(***************************************************************************)
(* net/http: the Set-Cookie headers of a response, the cookies of a        *)
(* request                                                                 *)
(***************************************************************************)

\* A Set-Cookie header line is a record [Name, Value, Expires, Path]; the
\* response header w is the sequence of these lines.  A request req is the
\* sequence of the [Name, Value] pairs of its Cookie header.

ErrNoCookie == "http: named cookie not present"

\* req.Cookie(name): the first cookie of that name, or ErrNoCookie.
Cookie(req, name) ==
  IF \E i \in 1..Len(req) : req[i].Name = name
  THEN LET i == CHOOSE i \in 1..Len(req) :
                  /\ req[i].Name = name
                  /\ \A j \in 1..(i - 1) : req[j].Name # name
       IN [Value |-> req[i].Value, err |-> "nil"]
  ELSE [Value |-> << >>, err |-> ErrNoCookie]

\* w.Header().Add("Set-Cookie", line)
HeaderAdd(w, line) == Append(w, line)

\* Set replacing the lines of the same cookie name only.
HeaderSetSameName(w, line) ==
  SelectSeq(w, LAMBDA c : c.Name # line.Name) \o << line >>

\* w.Header().Set("Set-Cookie", line)
HeaderSet(w, line) == << line >>

(***************************************************************************)
(* package bcookie, bcookie.go: type Secure                                *)
(***************************************************************************)

DefaultCookieTime == 3600 * 24

\* now - 31*86400 > ts
FreshnessWindow == 31 * 86400

\* time.Unix(2147483647, 0), the expiry of a cookie set with ExpirationTime 0
FarFuture == 2147483647

\* getSignature over the payload alone.
getSignatureValOnly(key, val, timestamp) ==
  Hex(hmacSum(key, val))

\* getSignature(key, val, timestamp): the hex digest of the HMAC, under key,
\* of the bytes of val followed by the bytes of timestamp.
getSignature(key, val, timestamp) ==
  Hex(hmacSum(key, val \o timestamp))

\* Get rejecting a token from the moment it is 31 days old.
SecureGetStrict(s, req, name, now) ==
  LET cookie == Cookie(req, name)
      parts == SplitN(cookie.Value, "|", 3)
  IN
  IF cookie.err # "nil"
  THEN [val |-> << >>, err |-> cookie.err, ret |-> "no cookie"]
  ELSE IF Len(parts) # 3
  THEN [val |-> << >>, err |-> cookie.err, ret |-> "malformed"]
  ELSE IF getSignature(s.Secret, parts[1], parts[2]) # parts[3]
  THEN [val |-> << >>, err |-> cookie.err, ret |-> "signature"]
  ELSE IF now - FreshnessWindow >= ParseInt0(parts[2]).n
  THEN [val |-> << >>, err |-> cookie.err, ret |-> "expired"]
  ELSE IF DecodeString(parts[1]).err # "nil"
  THEN [val |-> << >>, err |-> DecodeString(parts[1]).err, ret |-> "base64"]
  ELSE [val |-> DecodeString(parts[1]).decoded, err |-> "nil", ret |-> "ok"]

\* (s *Secure) Get(req, name), run at time now: the pair (string, error)
\* it returns, and in ret the return statement that was taken.
SecureGet(s, req, name, now) ==
  LET cookie == Cookie(req, name) IN
  IF cookie.err # "nil"
  THEN [val |-> << >>, err |-> cookie.err, ret |-> "no cookie"]
  ELSE
    LET parts == SplitN(cookie.Value, "|", 3) IN
    IF Len(parts) # 3
    THEN [val |-> << >>, err |-> cookie.err, ret |-> "malformed"]
    ELSE
      LET val == parts[1]
          timestamp == parts[2]
          sig == parts[3]
      IN
      IF getSignature(s.Secret, val, timestamp) # sig
      THEN [val |-> << >>, err |-> cookie.err, ret |-> "signature"]
      ELSE
        LET ts == ParseInt0(timestamp).n IN
        IF now - FreshnessWindow > ts
        THEN [val |-> << >>, err |-> cookie.err, ret |-> "expired"]
        ELSE
          LET d == DecodeString(val) IN
          IF d.err # "nil"
          THEN [val |-> << >>, err |-> d.err, ret |-> "base64"]
          ELSE [val |-> d.decoded, err |-> "nil", ret |-> "ok"]

\* SetPath writing the payload as it is, not its base64 encoding.
SecureSetPathRaw(s, w, name, val, path, now) ==
  IF Len(s.Secret) = 0
  THEN [err |-> "Cookie secret not valid", w |-> w]
  ELSE
    LET timestamp == FormatInt(now)
        sig == getSignature(s.Secret, val, timestamp)
        cookieVal == Join(<< val, timestamp, sig >>, << "|" >>)
        utctime == IF s.ExpirationTime = 0 THEN FarFuture
                   ELSE now + s.ExpirationTime
        cookie == [Name |-> name, Value |-> cookieVal, Expires |-> utctime, Path |-> path]
    IN [err |-> "nil", w |-> HeaderAdd(w, cookie)]

\* (s *Secure) SetPath(w, name, val, path), run at time now: the error it
\* returns and the response header it leaves.
SecureSetPath(s, w, name, val, path, now) ==
  IF Len(s.Secret) = 0
  THEN [err |-> "Cookie secret not valid", w |-> w]
  ELSE
    LET encoded == EncodeToString(val)
        timestamp == FormatInt(now)
        sig == getSignature(s.Secret, encoded, timestamp)
        cookieVal == Join(<< encoded, timestamp, sig >>, << "|" >>)
        utctime == IF s.ExpirationTime = 0 THEN FarFuture
                   ELSE now + s.ExpirationTime
        cookie == [Name |-> name, Value |-> cookieVal, Expires |-> utctime, Path |-> path]
    IN [err |-> "nil", w |-> HeaderAdd(w, cookie)]

\* The value Del writes in place of the token.
ignoredContent == << "B", "L", "U", "B", "L", "U" >>

\* (s *Secure) Del(w, cookieName, cookiePath): the response header it leaves.
SecureDel(w, cookieName, cookiePath) ==
  HeaderSet(w, [Name |-> cookieName, Value |-> ignoredContent, Expires |-> 0, Path |-> cookiePath])

(***************************************************************************)
(* package bcookie, cookies.go: the functions taking the secret            *)
(***************************************************************************)

\* Get(req, name, cookieSecret), run at time now: the pair (string, bool).
CookiesGet(req, name, cookieSecret, now) ==
  LET cookie == Cookie(req, name) IN
  IF cookie.err # "nil"
  THEN [val |-> << >>, ok |-> FALSE, ret |-> "no cookie"]
  ELSE
    LET parts == SplitN(cookie.Value, "|", 3) IN
    IF Len(parts) # 3
    THEN [val |-> << >>, ok |-> FALSE, ret |-> "malformed"]
    ELSE
      LET val == parts[1]
          timestamp == parts[2]
          sig == parts[3]
      IN
      IF getSignature(cookieSecret, val, timestamp) # sig
      THEN [val |-> << >>, ok |-> FALSE, ret |-> "signature"]
      ELSE
        LET ts == ParseInt0(timestamp).n IN
        IF now - FreshnessWindow > ts
        THEN [val |-> << >>, ok |-> FALSE, ret |-> "expired"]
        ELSE
          LET d == DecodeString(val) IN
          IF d.err # "nil"
          THEN [val |-> << >>, ok |-> FALSE, ret |-> "base64"]
          ELSE [val |-> d.decoded, ok |-> TRUE, ret |-> "ok"]

\* SetPath signing with whatever secret it is given, the empty one included.
CookiesSetPathUnchecked(w, name, val, age, path, cookieSecret, now) ==
  LET buf == EncodeToString(val)
      timestamp == FormatInt(now)
      sig == getSignature(cookieSecret, buf, timestamp)
      cookieVal == Join(<< buf, timestamp, sig >>, << "|" >>)
      utctime == IF age = 0 THEN FarFuture ELSE now + age
      cookie == [Name |-> name, Value |-> cookieVal, Expires |-> utctime, Path |-> path]
  IN [err |-> "nil", w |-> HeaderAdd(w, cookie)]

\* SetPath(w, name, val, age, path, cookieSecret), run at time now.
CookiesSetPath(w, name, val, age, path, cookieSecret, now) ==
  IF Len(cookieSecret) = 0
  THEN [err |-> ErrNoCookie, w |-> w]
  ELSE
    LET buf == EncodeToString(val)
        timestamp == FormatInt(now)
        sig == getSignature(cookieSecret, buf, timestamp)
        cookieVal == Join(<< buf, timestamp, sig >>, << "|" >>)
        utctime == IF age = 0 THEN FarFuture ELSE now + age
        cookie == [Name |-> name, Value |-> cookieVal, Expires |-> utctime, Path |-> path]
    IN [err |-> "nil", w |-> HeaderAdd(w, cookie)]

\* Del(w, cookieName, cookiePath)
CookiesDel(w, cookieName, cookiePath) ==
  HeaderSet(w, [Name |-> cookieName, Value |-> ignoredContent, Expires |-> 0, Path |-> cookiePath])

(***************************************************************************)
(* hashing.go: the password policy                                         *)
(***************************************************************************)

\* strings.ToLower, on the ASCII letters
ToLower(s) ==
  [i \in 1..Len(s) |-> IF IsUpper(s[i]) THEN Chr(Ord(s[i]) + 32) ELSE s[i]]

Min3(a, b, c) ==
  IF a <= b /\ a <= c THEN a ELSE IF b <= c THEN b ELSE c

\* One row of the edit distance table: prev is the row of the prefix of a
\* before byte c, cur the part of the new row computed so far, n the number
\* of entries to compute it up to.  The loop over the columns is run in two
\* halves, which keeps the evaluation shallow on a long b.
RECURSIVE levRow(_, _, _, _, _)
levRow(prev, c, b, cur, n) ==
  IF Len(cur) >= n THEN cur
  ELSE IF Len(cur) + 1 = n
  THEN
    LET k == Len(cur) + 1
        cost == IF b[k - 1] = c THEN 0 ELSE 1
    IN Append(cur, Min3(prev[k] + 1, cur[k - 1] + 1, prev[k - 1] + cost))
  ELSE levRow(prev, c, b, levRow(prev, c, b, cur, Len(cur) + ((n - Len(cur)) \div 2)), n)

RECURSIVE levRows(_, _, _)
levRows(a, b, prev) ==
  IF Len(a) = 0 THEN prev[Len(b) + 1]
  ELSE levRows(Tail(a), b, levRow(prev, a[1], b, << prev[1] + 1 >>, Len(b) + 1))

levDistance(a, b) ==
  levRows(a, b, [k \in 1..(Len(b) + 1) |-> k - 1])

\* bcrypt reads its key, the password followed by a zero byte, as the
\* Blowfish key schedule does: 18 words of 4 bytes, starting over at the
\* first byte whenever the key runs out.
BcryptKeyLen == 18 * 4

ExpandKey(password) ==
  LET key == Append(password, Chr(0))
  IN [i \in 1..BcryptKeyLen |-> key[((i - 1) % Len(key)) + 1]]

\* The usernames and the passwords the user operations are called with:
\* "bob", and "bobם4", whose base64 encoding Ym9i1500 ends in digits;
\* a password the policy rejects for both, two it accepts, and one it
\* accepts that fills the bcrypt key.
bob == << "b", "o", "b" >>
evil == << "b", "o", "b", "<215>", "<157>", "4" >>
Names == { bob, evil }
weak == << "4", "3", "2", "1" >>
strong == << "4", "3", "2", "1", "A", "s", "f", "d", "g", "@" >>
strong2 == << "4", "3", "2", "1", "A", "s", "d", "g", "@" >>
longest == strong \o [i \in 1..(BcryptKeyLen - Len(strong)) |-> "x"]
Passwords == { weak, strong, strong2, longest }

\* The passwords CheckUserPassword is asked about: these, none, the longest
\* with a byte more, and one repeated after a zero byte.
Guesses ==
  Passwords \cup { << >>, Append(longest, "y"), strong \o << Chr(0) >> \o strong }

\* The distances between these, computed once.
KnownPairs == { << ToLower(u), ToLower(p) >> : u \in Names, p \in Passwords }
levKnown == [x \in KnownPairs |-> levDistance(x[1], x[2])]

\* randomstring.LevenshteinDistance: the number of single byte insertions,
\* deletions and substitutions that turn a into b.
LevenshteinDistance(a, b) ==
  IF << a, b >> \in KnownPairs THEN levKnown[<< a, b >>] ELSE levDistance(a, b)

\* The messages of the errors IsPasswordAllowed builds with fmt.Errorf (the
\* %^ of the fourth is printed by Errorf as %!^(NOVERB)).
equal == "Username and password can't be equal!"
distance == "Username and password can't contain same words!"
alnum == "Password does not have numbers and letters."
special == "Password does not have one of the following:!@#$%!^(NOVERB)+&*~-_"
short == "Password does not have 9 characters"

\* regexp [[:alnum:]]+ matches somewhere in s
MatchAlnum(s) ==
  \E i \in 1..Len(s) : IsDigit(s[i]) \/ IsUpper(s[i]) \/ IsLower(s[i])

characters ==
  { "!", "#", "$", "%", "&", "*", "+", "-", "?", "@", "^", "_", "~" }

\* strings.ContainsAny(s, chars)
ContainsAny(s, chars) ==
  \E i \in 1..Len(s) : s[i] \in chars

\* IsPasswordAllowed rejecting also a distance equal to the threshold.
IsPasswordAllowedLe(username, password) ==
  LET usern == ToLower(username)
      passw == ToLower(password)
  IN
  IF usern = passw THEN equal
  ELSE IF LevenshteinDistance(usern, passw) <= Len(password) - (Len(password) \div 4)
  THEN distance
  ELSE IF Len(password) < 9 THEN short
  ELSE IF ~MatchAlnum(password) THEN alnum
  ELSE IF ~ContainsAny(password, characters) THEN special
  ELSE "nil"

\* IsPasswordAllowed checking the length before the distance.
IsPasswordAllowedShortFirst(username, password) ==
  LET usern == ToLower(username)
      passw == ToLower(password)
  IN
  IF usern = passw THEN equal
  ELSE IF Len(password) < 9 THEN short
  ELSE IF LevenshteinDistance(usern, passw) < Len(password) - (Len(password) \div 4)
  THEN distance
  ELSE IF ~MatchAlnum(password) THEN alnum
  ELSE IF ~ContainsAny(password, characters) THEN special
  ELSE "nil"

\* IsPasswordAllowed(username, password): "nil" or the error's message.
IsPasswordAllowed(username, password) ==
  LET usern == ToLower(username)
      passw == ToLower(password)
  IN
  IF usern = passw THEN equal
  ELSE IF LevenshteinDistance(usern, passw) < Len(password) - (Len(password) \div 4)
  THEN distance
  ELSE IF Len(password) < 9 THEN short
  ELSE IF ~MatchAlnum(password) THEN alnum
  ELSE IF ~ContainsAny(password, characters) THEN special
  ELSE "nil"

(***************************************************************************)
(* hashing.go: bcrypt                                                      *)
(***************************************************************************)

\* The head of a bcrypt hash: version and cost.
bcryptPrefix == << "$", "2", "a", "$", "1", "0", "$" >>

\* The digests of the passwords above, computed once.
digestKnown == [p \in Guesses |-> Hex(ExpandKey(p))]

\* The digest part of a bcrypt hash.  It is modelled as an ideal one: a
\* one-to-one function of what bcrypt reads of the password, the expanded
\* key.
Digest(password) ==
  IF password \in Guesses THEN digestKnown[password] ELSE Hex(ExpandKey(password))

\* HashBcrypt(password) with the salt GenerateFromPassword drew: the head,
\* the salt, the digest.
HashBcrypt(password, salt) ==
  bcryptPrefix \o << salt >> \o Digest(password)

\* correctBcrypt that also takes a stored value equal to the password.
correctBcryptOrEqual(hash, password) ==
  \/ hash = password
  \/ /\ Len(hash) > Len(bcryptPrefix)
     /\ SubSeq(hash, 1, Len(bcryptPrefix)) = bcryptPrefix
     /\ hash = HashBcrypt(password, hash[Len(bcryptPrefix) + 1])

\* correctBcrypt(hash, password): CompareHashAndPassword reads the salt out of
\* the hash, hashes the password with it and compares; a string that is no
\* bcrypt hash is an error, so false.
correctBcrypt(hash, password) ==
  /\ Len(hash) > Len(bcryptPrefix)
  /\ SubSeq(hash, 1, Len(bcryptPrefix)) = bcryptPrefix
  /\ hash = HashBcrypt(password, hash[Len(bcryptPrefix) + 1])

(***************************************************************************)
(* userstore/gdatastore.go: the users kept in the datastore, by key        *)
(***************************************************************************)

ErrKeyNotFound == "Key not found"

\* (d *Datastore) Get(key): the entity under the key, or ErrKeyNotFound (the
\* empty name makes an incomplete key, which Get refuses).
StoreGet(users, key) ==
  IF key \in DOMAIN users
  THEN [user |-> users[key], err |-> "nil"]
  ELSE [user |-> << >>, err |-> ErrKeyNotFound]

\* (d *Datastore) Put(key, value).  Under the empty name the entity is stored
\* under a numeric id of the datastore's choosing, where no Get by name
\* finds it: the users reachable by name are as before.
StorePut(users, key, value) ==
  IF Len(key) = 0 THEN users
  ELSE [k \in (DOMAIN users) \cup { key } |-> IF k = key THEN value ELSE users[k]]

\* (d *Datastore) Del(key): the entity under the key is deleted, if there is
\* one.
StoreDel(users, key) ==
  [k \in (DOMAIN users) \ { key } |-> users[k]]

(***************************************************************************)
(* userstate.go: UserState, in its two versions                            *)
(*   "current": the embedded bcookie.Secure, the policy applied            *)
(*   "legacy":  cookieSecret and cookieTime fields, HashPassword           *)
(* st stands for the receiver: [version, Secret, ExpirationTime]           *)
(***************************************************************************)

\* HasUser(username)
HasUser(users, username) ==
  StoreGet(users, username).err = "nil"

\* GetUser(username)
GetUser(users, username) ==
  StoreGet(users, username)

\* GetUsernameFromCookie(req), run at time now: the pair (string, error).
\* The second version returns an error on each of its three paths; the Get
\* it calls takes the secret and returns an error, and Get of cookies.go
\* returning false stands for it.
GetUsernameFromCookie(st, req, now) ==
  IF st.version = "current"
  THEN
    LET got == SecureGet(st, req, "user", now) IN
    IF got.err # "nil" THEN [username |-> << >>, err |-> got.err]
    ELSE IF got.val = << >>
    THEN [username |-> << >>, err |-> "Could not get username, is empty :("]
    ELSE [username |-> got.val, err |-> "nil"]
  ELSE
    LET got == CookiesGet(req, "user", st.Secret, now) IN
    IF ~got.ok THEN [username |-> << >>, err |-> "error of secureCookie.Get"]
    ELSE IF got.val = << >>
    THEN [username |-> << >>, err |-> "Could not get username is empty :("]
    ELSE [username |-> << >>,
          err |-> "Could not retrieve the username from browser cookie"]

\* SetUsernameIntoCookie(w, username), run at time now: the error and the
\* response header it leaves.
SetUsernameIntoCookie(st, users, w, username, now) ==
  IF username = << >>
  THEN [err |-> "Can't set cookie for empty username", w |-> w]
  ELSE IF ~HasUser(users, username)
  THEN [err |-> "Can't store cookie for non-existing user", w |-> w]
  ELSE IF st.version = "current"
  THEN SecureSetPath(st, w, "user", username, "/", now)
  ELSE CookiesSetPath(w, "user", username, st.ExpirationTime, "/", st.Secret, now)

\* ClearCookie(w): the response header it leaves.
ClearCookie(st, w) ==
  IF st.version = "current" THEN SecureDel(w, "user", "/") ELSE CookiesDel(w, "user", "/")

\* The UserProperty values, and which of them hold a bool.
UserProperties ==
  { "Admin", "Confirmed", "ConfirmationCode", "Loggedin", "Password", "Active",
    "Email", "Username" }
BoolProperties == { "Admin", "Confirmed", "Loggedin", "Active" }

\* SetUserStatus with the record read again where it is written.
SetUserStatusFromFresh(st, users, got, username, prop, val, salt) ==
  LET fresh == StoreGet(users, username)
      user == fresh.user
      rejected == IF st.version = "current" /\ prop = "Password"
                  THEN IsPasswordAllowed(username, val) ELSE "nil"
      changed ==
        CASE prop = "Confirmed" -> [user EXCEPT !.Confirmed = val]
          [] prop = "Email" -> [user EXCEPT !.Email = val]
          [] prop = "Password" -> [user EXCEPT !.Password = HashBcrypt(val, salt)]
          [] prop = "Active" ->
               [user EXCEPT !.Active = val,
                            !.Loggedin = IF val = TRUE THEN FALSE ELSE @]
          [] prop = "Admin" -> [user EXCEPT !.Admin = val]
          [] prop = "Loggedin" -> [user EXCEPT !.Loggedin = val]
          [] OTHER -> user
  IN
  IF fresh.err # "nil" THEN [err |-> fresh.err, users |-> users]
  ELSE IF rejected # "nil" THEN [err |-> rejected, users |-> users]
  ELSE [err |-> "nil", users |-> StorePut(users, username, changed)]

\* SetUserStatus(username, prop, val) after its first line: got is what
\* state.users.Get(username) returned, users the datastore as it is when the
\* record is Put, salt the salt bcrypt draws.  The error and the users it
\* leaves.
SetUserStatusFrom(st, users, got, username, prop, val, salt) ==
  LET user == got.user
      rejected == IF st.version = "current" /\ prop = "Password"
                  THEN IsPasswordAllowed(username, val) ELSE "nil"
      changed ==
        CASE prop = "Confirmed" -> [user EXCEPT !.Confirmed = val]
          [] prop = "Email" -> [user EXCEPT !.Email = val]
          [] prop = "Password" -> [user EXCEPT !.Password = HashBcrypt(val, salt)]
          [] prop = "Active" ->
               [user EXCEPT !.Active = val,
                            !.Loggedin = IF val = TRUE THEN FALSE ELSE @]
          [] prop = "Admin" -> [user EXCEPT !.Admin = val]
          [] prop = "Loggedin" -> [user EXCEPT !.Loggedin = val]
          [] OTHER -> user
  IN
  IF got.err # "nil" THEN [err |-> got.err, users |-> users]
  ELSE IF rejected # "nil" THEN [err |-> rejected, users |-> users]
  ELSE [err |-> "nil", users |-> StorePut(users, username, changed)]

\* SetUserStatus(username, prop, val) run with nothing between its Get and its
\* Put: the error and the users it leaves.
SetUserStatus(st, users, username, prop, val, salt) ==
  SetUserStatusFrom(st, users, StoreGet(users, username), username, prop, val, salt)

\* AddUser refusing a user whose key holds a record.
AddUserIfAbsent(st, users, user, salt) ==
  IF user.Email \in DOMAIN users
  THEN [err |-> "User already exists", users |-> users, user |-> user]
  ELSE IF st.version = "current"
  THEN
    IF user.Email = << >>
    THEN [err |-> "Email field is required", users |-> users, user |-> user]
    ELSE IF user.Username = << >>
    THEN [err |-> "Username field is required", users |-> users, user |-> user]
    ELSE IF user.Password = << >>
    THEN [err |-> "Password field is required", users |-> users, user |-> user]
    ELSE IF IsPasswordAllowed(user.Username, user.Password) # "nil"
    THEN [err |-> IsPasswordAllowed(user.Username, user.Password),
          users |-> users, user |-> user]
    ELSE
      LET hashed == [user EXCEPT !.Password = HashBcrypt(user.Password, salt)]
      IN [err |-> "nil", users |-> StorePut(users, user.Email, hashed), user |-> hashed]
  ELSE [err |-> "nil", users |-> StorePut(users, user.Email, user), user |-> user]

\* AddUser(user), salt being the salt bcrypt draws: the error, the users it
\* leaves, and the user object, whose Password the first version overwrites.
AddUser(st, users, user, salt) ==
  IF st.version = "current"
  THEN
    IF user.Email = << >>
    THEN [err |-> "Email field is required", users |-> users, user |-> user]
    ELSE IF user.Username = << >>
    THEN [err |-> "Username field is required", users |-> users, user |-> user]
    ELSE IF user.Password = << >>
    THEN [err |-> "Password field is required", users |-> users, user |-> user]
    ELSE IF IsPasswordAllowed(user.Username, user.Password) # "nil"
    THEN [err |-> IsPasswordAllowed(user.Username, user.Password),
          users |-> users, user |-> user]
    ELSE
      LET hashed == [user EXCEPT !.Password = HashBcrypt(user.Password, salt)]
      IN [err |-> "nil", users |-> StorePut(users, user.Email, hashed), user |-> hashed]
  ELSE [err |-> "nil", users |-> StorePut(users, user.Email, user), user |-> user]

\* The values of passwordAlgorithm the comments name.
PasswordAlgorithms == { "bcrypt", "bcrypt+", "sha256" }

\* CheckUserPassword(username, password), IsUserPassword in the second
\* version: the switch on state.passwordAlgorithm has one case, for "bcrypt"
\* and "bcrypt+", and false follows it.
CheckUserPassword(st, users, username, password) ==
  IF ~HasUser(users, username) THEN FALSE
  ELSE
    LET got == GetUser(users, username) IN
    IF got.err # "nil" THEN FALSE
    ELSE IF Len(got.user.Password) = 0 THEN FALSE
    ELSE IF st.passwordAlgorithm \in { "bcrypt", "bcrypt+" }
    THEN correctBcrypt(got.user.Password, password)
    ELSE FALSE

\* Login without the test of user.Active.
LoginInactive(st, users, w, username, now) ==
  LET got == GetUser(users, username) IN
  IF got.err # "nil" THEN [err |-> got.err, users |-> users, w |-> w]
  ELSE
    LET set == SetUserStatus(st, users, username, "Loggedin", TRUE, "-") IN
    IF set.err # "nil" THEN [err |-> set.err, users |-> set.users, w |-> w]
    ELSE
      LET sent == SetUsernameIntoCookie(st, set.users, w, username, now)
      IN [err |-> sent.err, users |-> set.users, w |-> sent.w]

\* Login(w, username), run at time now: the error, the users and the
\* response header it leaves.
Login(st, users, w, username, now) ==
  LET got == GetUser(users, username) IN
  IF got.err # "nil" THEN [err |-> got.err, users |-> users, w |-> w]
  ELSE IF ~got.user.Active
  THEN [err |-> "Username is not registered", users |-> users, w |-> w]
  ELSE
    LET set == SetUserStatus(st, users, username, "Loggedin", TRUE, "-") IN
    IF set.err # "nil" THEN [err |-> set.err, users |-> set.users, w |-> w]
    ELSE
      LET sent == SetUsernameIntoCookie(st, set.users, w, username, now)
      IN [err |-> sent.err, users |-> set.users, w |-> sent.w]

\* Login(w, username) up to the call of SetUsernameIntoCookie that it
\* returns the result of: the error it returned, "nil" where it has not
\* returned, and the users it leaves.
LoginSetStatus(st, users, username) ==
  LET got == GetUser(users, username) IN
  IF got.err # "nil" THEN [err |-> got.err, users |-> users]
  ELSE IF ~got.user.Active
  THEN [err |-> "Username is not registered", users |-> users]
  ELSE SetUserStatus(st, users, username, "Loggedin", TRUE, "-")

\* Logout(username); the second version drops the error.
Logout(st, users, username) ==
  LET set == SetUserStatus(st, users, username, "Loggedin", FALSE, "-")
  IN [err |-> IF st.version = "current" THEN set.err ELSE "nil", users |-> set.users]

\* GetUserStatus(id, prop): the pair (result, err).  The first version reads
\* Password, the second does not; neither reads Active.
GetUserStatus(st, users, id, prop) ==
  LET got == StoreGet(users, id)
      user == got.user
  IN
  IF got.err # "nil" THEN [result |-> FALSE, err |-> got.err]
  ELSE IF prop = "Admin" THEN [result |-> user.Admin, err |-> "nil"]
  ELSE IF prop = "Confirmed" THEN [result |-> user.Confirmed, err |-> "nil"]
  ELSE IF prop = "ConfirmationCode"
  THEN [result |-> user.ConfirmationCode, err |-> "nil"]
  ELSE IF prop = "Loggedin" THEN [result |-> user.Loggedin, err |-> "nil"]
  ELSE IF prop = "Password" /\ st.version = "current"
  THEN [result |-> user.Password, err |-> "nil"]
  ELSE IF prop = "Email" THEN [result |-> user.Email, err |-> "nil"]
  ELSE IF prop = "Username" THEN [result |-> user.Username, err |-> "nil"]
  ELSE IF st.version = "current"
  THEN [result |-> FALSE, err |-> "Property is not defined"]
  ELSE [result |-> FALSE, err |-> "Property is not gettable or defined"]

\* IsCurrentUserAdmin that asks for the Admin flag alone.
IsCurrentUserAdminLoggedOut(st, users, named) ==
  LET admin == GetUserStatus(st, users, named.username, "Admin") IN
  IF named.err # "nil" THEN [ok |-> FALSE, err |-> named.err]
  ELSE IF st.version = "current" /\ admin.err # "nil"
  THEN [ok |-> FALSE, err |-> admin.err]
  ELSE [ok |-> admin.result, err |-> "nil"]

\* IsCurrentUserAdmin(req) after its first line, named being what
\* GetUsernameFromCookie(req) returned: the pair (bool, error) of the first
\* version; the second returns the bool alone and drops the errors of
\* GetUserStatus, whose result is then false.
IsCurrentUserAdminNamed(st, users, named) ==
  LET login == GetUserStatus(st, users, named.username, "Loggedin")
      admin == GetUserStatus(st, users, named.username, "Admin")
  IN
  IF named.err # "nil" THEN [ok |-> FALSE, err |-> named.err]
  ELSE IF st.version = "current" /\ login.err # "nil"
  THEN [ok |-> FALSE, err |-> login.err]
  ELSE IF st.version = "current" /\ admin.err # "nil"
  THEN [ok |-> FALSE, err |-> admin.err]
  ELSE [ok |-> login.result /\ admin.result, err |-> "nil"]

\* IsCurrentUserAdmin(req), run at time now
IsCurrentUserAdmin(st, users, req, now) ==
  IsCurrentUserAdminNamed(st, users, GetUsernameFromCookie(st, req, now))

(***************************************************************************)
(* randomstring and the confirmation codes of userstate.go                 *)
(***************************************************************************)

\* The bytes GenReadable draws from.
allowed ==
  << "a", "b", "c", "d", "e", "f", "g", "h", "i", "j", "k", "l", "m",
     "n", "o", "p", "q", "r", "s", "t", "u", "v", "w", "x", "y", "z",
     "A", "B", "C", "D", "E", "F", "G", "H", "I", "J", "K", "L", "M",
     "N", "O", "P", "Q", "R", "S", "T", "U", "V", "W", "X", "Y", "Z",
     "0", "1", "2", "3", "4", "5", "6", "7", "8", "9" >>

\* The bytes drawn in this model: the first and the last of allowed.
Drawn == { allowed[1], allowed[Len(allowed)] }

\* randomstring.GenReadable(length): the strings it can return, of which
\* those made of one byte of Drawn repeated are kept.
GenReadable(length) ==
  { [i \in 1..length |-> c] : c \in Drawn }

minConfirmationCodeLength == 32
maxConfirmationCodeLength == 100

\* The length GenConfirmationCode asks of GenReadable.
GenConfirmationCodeLength == 64

\* GenConfirmationCode(), of the first version: the strings it can return.
GenConfirmationCode ==
  GenReadable(GenConfirmationCodeLength)

\* The strings of the given field of the users with Confirmed = false.
Unconfirmed(users, what) ==
  { users[k][what] : k \in { j \in DOMAIN users : ~users[j].Confirmed } }

\* The sequences holding each element of S once.
Orderings(S) ==
  { s \in [1..Cardinality(S) -> S] : \A i, j \in 1..Cardinality(S) : s[i] = s[j] => i = j }

\* GetAllFiltered(what, "Confirmed =", "false"): the pairs (usernames, err) the
\* query can give.  The datastore service answers it: with an error, or with
\* the names of the unconfirmed users in some order, which is what the callers
\* take the answer for, handing each element to GetUserStatus.
GetAllFiltered(users, what) ==
  { [usernames |-> << >>, err |-> "error of client.GetAll"] }
    \cup { [usernames |-> s, err |-> "nil"] : s \in Orderings(Unconfirmed(users, "Username")) }

\* The loop of AlreadyHasConfirmationCode from the i-th name on.
RECURSIVE scanConfirmationCodes(_, _, _, _, _)
scanConfirmationCodes(st, users, confirmationCode, unconfirmedUsernames, i) ==
  IF i > Len(unconfirmedUsernames) THEN FALSE
  ELSE
    LET got == GetUserStatus(st, users, unconfirmedUsernames[i], "ConfirmationCode") IN
    IF got.err # "nil" THEN FALSE
    ELSE IF confirmationCode = got.result THEN TRUE
    ELSE scanConfirmationCodes(st, users, confirmationCode, unconfirmedUsernames, i + 1)

\* AlreadyHasConfirmationCode(confirmationCode), listed being what
\* GetAllFiltered gave.
AlreadyHasConfirmationCode(st, users, confirmationCode, listed) ==
  IF listed.err # "nil" THEN FALSE
  ELSE scanConfirmationCodes(st, users, confirmationCode, listed.usernames, 1)

\* The loop of GetUserByConfirmationCode from the i-th name on: the name whose
\* confirmation code is the given one, or the empty name.  A name whose lookup
\* fails is skipped.
RECURSIVE findConfirmationCode(_, _, _, _, _)
findConfirmationCode(st, users, confirmationcode, usernames, i) ==
  IF i > Len(usernames) THEN << >>
  ELSE
    LET code == GetUserStatus(st, users, usernames[i], "ConfirmationCode") IN
    IF code.err # "nil"
    THEN findConfirmationCode(st, users, confirmationcode, usernames, i + 1)
    ELSE IF confirmationcode = code.result THEN usernames[i]
    ELSE findConfirmationCode(st, users, confirmationcode, usernames, i + 1)

\* GetUserByConfirmationCode(confirmationcode), FindUserByConfirmationCode in
\* the second version, listed being what GetAllFiltered gave: the pair
\* (string, error).
GetUserByConfirmationCode(st, users, confirmationcode, listed) ==
  LET nickname == findConfirmationCode(st, users, confirmationcode, listed.usernames, 1)
  IN
  IF listed.err # "nil"
  THEN [username |-> << >>, err |-> "All existing users are already confirmed."]
  ELSE IF nickname = << >>
  THEN [username |-> nickname,
        err |-> IF st.version = "current"
                THEN "The confirmation code is not valid."
                ELSE "The confirmation code is no longer valid."]
  ELSE IF ~HasUser(users, nickname)
  THEN [username |-> nickname,
        err |-> IF st.version = "current"
                THEN "The user no longer exists."
                ELSE "The user that is to be confirmed no longer exists."]
  ELSE [username |-> nickname, err |-> "nil"]

\* GenerateUniqueConfirmationCode up to its loop: the locals, with the number
\* of times AlreadyHasConfirmationCode was asked, the length of the first
\* candidate, and what was answered about confirmationCode ("none": not asked).
\* taken tells which codes are in use: "stored", those AlreadyHasConfirmationCode
\* finds in the datastore, or "every", a datastore so full that every code
\* drawn is found in it.
GenerateBegin(drawn, taken) ==
  [op |-> "GenerateUniqueConfirmationCode", pc |-> "for", taken |-> taken,
   length |-> minConfirmationCodeLength, confirmationCode |-> drawn,
   first |-> Len(drawn), asked |-> 0, answer |-> "none", err |-> "nil"]

\* The loop of GenerateUniqueConfirmationCode with the answer ignored.
GenerateTurnDeaf(g, inUse, drawn) ==
  [g EXCEPT !.pc = "return", !.asked = @ + 1, !.answer = IF inUse THEN "true" ELSE "false"]

\* The loop of GenerateUniqueConfirmationCode without its ceiling.
GenerateTurnOpen(g, inUse, drawn) ==
  IF ~inUse
  THEN [g EXCEPT !.pc = "return", !.asked = @ + 1, !.answer = "false"]
  ELSE [g EXCEPT !.length = @ + 1, !.confirmationCode = drawn,
                 !.asked = @ + 1, !.answer = "none"]

\* One turn of the loop of GenerateUniqueConfirmationCode: inUse is what
\* AlreadyHasConfirmationCode answers about g.confirmationCode, drawn is what
\* GenReadable(length) returns after length++.
GenerateTurn(g, inUse, drawn) ==
  IF ~inUse
  THEN [g EXCEPT !.pc = "return", !.asked = @ + 1, !.answer = "false"]
  ELSE IF g.length + 1 > maxConfirmationCodeLength
  THEN [g EXCEPT !.length = @ + 1, !.confirmationCode = drawn,
                 !.asked = @ + 1, !.answer = "none", !.pc = "return",
                 !.err = "Too many generated confirmation codes are not unique!"]
  ELSE [g EXCEPT !.length = @ + 1, !.confirmationCode = drawn,
                 !.asked = @ + 1, !.answer = "none"]

(***************************************************************************)
(* Permissions: the path prefixes of the three kinds, Rejected, ServeHTTP *)
(***************************************************************************)

\* The keys of Permissions.paths.
aPaths == "AdminPaths"
uPaths == "UserPaths"
pPaths == "PubblicPaths"

\* The handlers: the default deny handler, another one set with
\* SetDenyFunc, and the next handler of the middleware chain.
DefaultDenyFunc == "DefaultDenyFunc"
Handlers == { DefaultDenyFunc, "deny", "next" }

\* NewFromUserState(state): the default prefixes, the root public, the
\* default deny handler.
NewFromUserState ==
  [paths |-> [k \in { aPaths, uPaths, pPaths } |->
                IF k = aPaths THEN << << "/", "a", "d", "m", "i", "n" >> >>
                ELSE IF k = uPaths THEN << << "/", "p", "r", "o", "f", "i", "l", "e", "s" >>, << "/", "d", "a", "t", "a" >> >>
                ELSE << << "/" >>, << "/", "l", "o", "g", "i", "n" >>, << "/", "r", "e", "g", "i", "s", "t", "e", "r" >>,
                        << "/", "f", "a", "v", "i", "c", "o", "n", ".", "i", "c", "o" >>, << "/", "s", "t", "y", "l", "e" >>,
                        << "/", "i", "m", "g" >>, << "/", "j", "s" >>, << "/", "f", "a", "v", "i", "c", "o", "n", ".", "i", "c", "o" >>,
                        << "/", "r", "o", "b", "o", "t", "s", ".", "t", "x", "t" >>, << "/", "s", "i", "t", "e", "m", "a", "p", "_", "i", "n", "d", "e", "x", ".", "x", "m", "l" >> >>],
   rootIsPublic |-> TRUE,
   denied |-> DefaultDenyFunc]

\* perm.SetDenyFunc(f)
SetDenyFunc(perm, f) == [perm EXCEPT !.denied = f]

\* perm.GetDenyFunc()
GetDenyFunc(perm) == perm.denied

\* perm.Reset(): the admin and the user prefixes are emptied, the public
\* ones stay.
Reset(perm) ==
  [perm EXCEPT !.paths[aPaths] = << >>, !.paths[uPaths] = << >>]

\* perm.AddPath(valid, prefix)
AddPath(perm, valid, prefix) ==
  [perm EXCEPT !.paths[valid] = Append(@, prefix)]

\* perm.SetPath(valid, pathPrefixes)
SetPath(perm, valid, pathPrefixes) ==
  [perm EXCEPT !.paths[valid] = pathPrefixes]

\* strings.HasPrefix made to stop at the end of a path segment.
HasPrefixSegment(s, prefix) ==
  /\ Len(s) >= Len(prefix)
  /\ SubSeq(s, 1, Len(prefix)) = prefix
  /\ \/ Len(s) = Len(prefix)
     \/ s[Len(prefix) + 1] = "/"
     \/ (Len(prefix) > 0 /\ prefix[Len(prefix)] = "/")

\* strings.HasPrefix(s, prefix)
HasPrefix(s, prefix) ==
  /\ Len(s) >= Len(prefix)
  /\ SubSeq(s, 1, Len(prefix)) = prefix

\* A request is [Path, isLoggedIn, isAdmin]: the path of its URL, and what
\* the user named by its cookie is in the datastore.
\* state.AdminRights(req): the user of the request is logged in and admin.
AdminRights(req) == req.isLoggedIn /\ req.isAdmin

\* state.UserRights(req): the user of the request is logged in.
UserRights(req) == req.isLoggedIn

\* Some prefix of the list is a prefix of the path.
AnyPrefix(path, prefixes) ==
  \E i \in 1..Len(prefixes) : HasPrefix(path, prefixes[i])

\* Rejected without the exception for the public root.
RejectedBelowRoot(perm, req) ==
  LET path == req.Path IN
  IF AnyPrefix(path, perm.paths[aPaths]) /\ ~AdminRights(req) THEN TRUE
  ELSE IF AnyPrefix(path, perm.paths[uPaths]) /\ ~UserRights(req) THEN TRUE
  ELSE ~AnyPrefix(path, perm.paths[pPaths])

\* perm.Rejected(w, req).  Each loop over a list sets reject, or found, at
\* the first prefix of the path and breaks; the rights do not depend on the
\* prefix.
Rejected(perm, req) ==
  LET path == req.Path IN
  IF perm.rootIsPublic /\ path = << "/" >> THEN FALSE
  ELSE IF AnyPrefix(path, perm.paths[aPaths]) /\ ~AdminRights(req) THEN TRUE
  ELSE IF AnyPrefix(path, perm.paths[uPaths]) /\ ~UserRights(req) THEN TRUE
  ELSE ~AnyPrefix(path, perm.paths[pPaths])

\* ServeHTTP without the return after the deny handler.
ServeHTTPNoReturn(perm, req, next) ==
  IF Rejected(perm, req)
  THEN << [from |-> "GetDenyFunc", f |-> GetDenyFunc(perm)], [from |-> "next", f |-> next] >>
  ELSE << [from |-> "next", f |-> next] >>

\* perm.ServeHTTP(w, req, next): the handlers it calls, in order, each with
\* the place it was taken from.
ServeHTTP(perm, req, next) ==
  IF Rejected(perm, req)
  THEN << [from |-> "GetDenyFunc", f |-> GetDenyFunc(perm)] >>
  ELSE << [from |-> "next", f |-> next] >>

(***************************************************************************)
(* State                                                                   *)
(***************************************************************************)

VARIABLES
  now,      \* time.Now().Unix()
  secure,   \* the Secure value: [ExpirationTime, Secret]
  w,        \* the Set-Cookie lines of the response being written
  issued,   \* per line of w, what wrote it: the SetPath arguments, or Del
  store,    \* the users in the datastore, by key
  impl,     \* the version of UserState in use: "current" or "legacy"
  perm,     \* the Permissions value: [paths, rootIsPublic, denied]
  proc,     \* the calls in progress: what each has read and where it stands
  call      \* the last call made: the operation, its arguments, what it returned

vars == << now, secure, w, issued, store, impl, perm, proc, call >>

\* No call is in progress.
NoProc == << >>

\* The datastore holding no user.
EmptyStore == [k \in { } |-> << >>]

(***************************************************************************)
(* Bounds of the model                                                     *)
(***************************************************************************)

\* The clock starts here.
StartTime == 1700000000

\* The clock is advanced at most this many times.
MaxTicks == 2

\* A response holds at most this many Set-Cookie lines.
MaxHeader == 1

\* The clock advances by a second or by the freshness window.
Deltas == { 1, FreshnessWindow }

\* Cookie secrets: none, and two keys.
Secrets == { << >>, << "k" >>, << "K", "2" >> }

\* The values of Secure.ExpirationTime.
ExpirationTimes == { 0, DefaultCookieTime }

\* Payloads: empty, and one holding the delimiter.
Payloads == { << >>, << "a", "|", "b" >> }

\* The bytes a forger writes over byte c of a token: the delimiter, and a
\* byte of the alphabet of all three segments.
TamperChars(c) == { "|", IF c = "0" THEN "1" ELSE "0" } \ { c }

\* Cookie values that are no token at all.
Garbage == { << >>, << "a", "b", "c" >>, << "a", "|", "b" >>, << "|", "|" >> }

(***************************************************************************)
(* The requests a client can build from the response it holds              *)
(***************************************************************************)

\* The lines of w that SetPath wrote under cookie name "user".
Tokens == { i \in 1..Len(w) : issued[i].op = "SetPath" /\ w[i].Name = "user" }

\* The segment of token v that position p lies in.
Segment(v, p) ==
  LET d1 == IndexFrom(v, "|", 1)
      d2 == IndexFrom(v, "|", d1 + 1)
  IN IF p < d1 THEN "payload"
     ELSE IF p = d1 \/ p = d2 THEN "delimiter"
     ELSE IF p < d2 THEN "timestamp"
     ELSE "signature"

\* Token v with its first delimiter moved to stand after the first k bytes
\* of payload and timestamp.
Respliced(v, k) ==
  LET d1 == IndexFrom(v, "|", 1)
      d2 == IndexFrom(v, "|", d1 + 1)
      body == SubSeq(v, 1, d1 - 1) \o SubSeq(v, d1 + 1, d2 - 1)
  IN SubSeq(body, 1, k) \o << "|" >> \o SubSeq(body, k + 1, Len(body))
       \o SubSeq(v, d2, Len(v))

\* Every position of token v.
AllPositions(v) == 1..Len(v)

\* The first and the last position of each segment of token v.
EdgePositions(v) ==
  LET d1 == IndexFrom(v, "|", 1)
      d2 == IndexFrom(v, "|", d1 + 1)
  IN { p \in { 1, d1 - 1, d1 + 1, d2 - 1, d2 + 1, Len(v) } :
         p \in 1..Len(v) /\ v[p] # "|" }

\* The positions of token v at which a byte is replaced.
Positions(v, edges) == IF edges THEN EdgePositions(v) ELSE AllPositions(v)

\* A request is described by how it was made: [kind, orig, seg, req], orig the
\* line of w it was made from (0 if none), seg the segment that was changed.
\* Bytes are replaced at the edge positions only, or at every position.
RequestsAt(edges) ==
  { [kind |-> "none", orig |-> 0, seg |-> "", req |-> << >>] }
  \cup { [kind |-> "intact", orig |-> i, seg |-> "",
          req |-> << [Name |-> w[i].Name, Value |-> w[i].Value] >>] : i \in 1..Len(w) }
  \cup { [kind |-> "garbage", orig |-> 0, seg |-> "",
          req |-> << [Name |-> "user", Value |-> g] >>] : g \in Garbage }
  \cup UNION { UNION { { [kind |-> "tampered", orig |-> i, seg |-> Segment(w[i].Value, p),
                          req |-> << [Name |-> "user",
                                      Value |-> [w[i].Value EXCEPT ![p] = c]] >>]
                        : c \in TamperChars(w[i].Value[p]) }
                      : p \in Positions(w[i].Value, edges) }
               : i \in Tokens }
  \cup UNION { { [kind |-> "respliced", orig |-> i, seg |-> "delimiter",
                  req |-> << [Name |-> "user", Value |-> Respliced(w[i].Value, k)] >>]
                : k \in (0..(IndexFrom(w[i].Value, "|", IndexFrom(w[i].Value, "|", 1) + 1) - 2))
                        \ { IndexFrom(w[i].Value, "|", 1) - 1 } }
             : i \in Tokens }

\* The requests the cookie layer is read with: a byte replaced anywhere.
Requests == RequestsAt(FALSE)

\* The requests the user operations are read with: a byte replaced at the
\* edges of the segments.
SessionRequests == RequestsAt(TRUE)

(***************************************************************************)
(* The cookie package called directly                                      *)
(***************************************************************************)

NoCall == [op |-> "none"]

\* bcookie.New(): the default expiration time and a random secret.
InitCookie ==
  /\ now = StartTime
  /\ secure \in [ExpirationTime : { DefaultCookieTime }, Secret : Secrets \ { << >> }]
  /\ w = << >>
  /\ issued = << >>
  /\ store = EmptyStore
  /\ impl = "current"
  /\ perm = NewFromUserState
  /\ proc = NoProc
  /\ call = NoCall

\* The number of times the clock was advanced.
Ticks ==
  ((now - StartTime) \div FreshnessWindow) + ((now - StartTime) % FreshnessWindow)

\* time passes
Tick ==
  \E d \in Deltas :
    /\ Ticks < MaxTicks
    /\ now' = now + d
    /\ call' = [op |-> "Tick"]
    /\ UNCHANGED << secure, w, issued, store, impl, perm, proc >>

\* secure.Secret = k
SetSecret ==
  \E k \in Secrets \ { secure.Secret } :
    /\ secure' = [secure EXCEPT !.Secret = k]
    /\ call' = [op |-> "SetSecret"]
    /\ UNCHANGED << now, w, issued, store, impl, perm, proc >>

\* secure.ExpirationTime = t
SetExpirationTime ==
  \E t \in ExpirationTimes \ { secure.ExpirationTime } :
    /\ secure' = [secure EXCEPT !.ExpirationTime = t]
    /\ call' = [op |-> "SetExpirationTime"]
    /\ UNCHANGED << now, w, issued, store, impl, perm, proc >>

\* httptest.NewRecorder(): the next response starts empty
NewRecorder ==
  /\ Len(w) > 0
  /\ w' = << >>
  /\ issued' = << >>
  /\ call' = [op |-> "NewRecorder"]
  /\ UNCHANGED << now, secure, store, impl, perm, proc >>

\* err := secure.SetPath(w, "user", val, "/")
SecureSetPathCall ==
  \E val \in Payloads :
    LET r == SecureSetPath(secure, w, "user", val, "/", now) IN
    /\ Len(w) < MaxHeader
    /\ w' = r.w
    /\ issued' = IF r.err = "nil"
                 THEN Append(issued, [op |-> "SetPath", val |-> val, at |-> now,
                                      key |-> secure.Secret])
                 ELSE issued
    /\ call' = [op |-> "SetPath", api |-> "Secure", val |-> val,
                age |-> secure.ExpirationTime, before |-> w, err |-> r.err]
    /\ UNCHANGED << now, secure, store, impl, perm, proc >>

\* err := SetPath(w, "user", val, age, "/", cookieSecret)
CookiesSetPathCall ==
  \E val \in Payloads, age \in ExpirationTimes :
    LET r == CookiesSetPath(w, "user", val, age, "/", secure.Secret, now) IN
    /\ Len(w) < MaxHeader
    /\ w' = r.w
    /\ issued' = IF r.err = "nil"
                 THEN Append(issued, [op |-> "SetPath", val |-> val, at |-> now,
                                      key |-> secure.Secret])
                 ELSE issued
    /\ call' = [op |-> "SetPath", api |-> "cookies", val |-> val,
                age |-> age, before |-> w, err |-> r.err]
    /\ UNCHANGED << now, secure, store, impl, perm, proc >>

\* A read leaves the state as it is, so a read that follows a read reaches
\* nothing that a read from the state before it does not reach: reads are
\* taken from the states that are not themselves the result of a read.
Reading ==
  call.op \in { "Get", "GetUsernameFromCookie", "CheckUserPassword", "Rejected", "ServeHTTP",
               "GenConfirmationCode", "AlreadyHasConfirmationCode",
               "GenerateUniqueConfirmationCode", "GetUserByConfirmationCode",
               "GetUserStatus", "HasUser",
               "IsCurrentUserAdmin" }

\* val, err := secure.Get(req, "user")
SecureGetCall ==
  /\ ~Reading
  /\ \E r \in Requests :
    /\ call' = [op |-> "Get", api |-> "Secure", how |-> r,
                res |-> SecureGet(secure, r.req, "user", now)]
    /\ UNCHANGED << now, secure, w, issued, store, impl, perm, proc >>

\* val, ok := Get(req, "user", cookieSecret)
CookiesGetCall ==
  /\ ~Reading
  /\ \E r \in Requests :
    /\ call' = [op |-> "Get", api |-> "cookies", how |-> r,
                res |-> CookiesGet(r.req, "user", secure.Secret, now)]
    /\ UNCHANGED << now, secure, w, issued, store, impl, perm, proc >>

\* secure.Del(w, "user", "/") and Del(w, "user", "/")
DelCall ==
  \E api \in { "Secure", "cookies" } :
    /\ w' = IF api = "Secure" THEN SecureDel(w, "user", "/") ELSE CookiesDel(w, "user", "/")
    /\ issued' = << [op |-> "Del"] >>
    /\ call' = [op |-> "Del", api |-> api, before |-> w]
    /\ UNCHANGED << now, secure, store, impl, perm, proc >>

NextCookie ==
  \/ Tick
  \/ SetSecret
  \/ SetExpirationTime
  \/ NewRecorder
  \/ SecureSetPathCall
  \/ CookiesSetPathCall
  \/ SecureGetCall
  \/ CookiesGetCall
  \/ DelCall

SpecCookie == InitCookie /\ [][NextCookie]_vars

(***************************************************************************)
(* Del on a response that holds cookies of several names                   *)
(***************************************************************************)

\* A response holds at most this many Set-Cookie lines here.
MaxDelHeader == 2

\* The names of the cookies.
CookieNames == { "user", "lang" }

\* err := secure.SetPath(w, name, val, "/")
SetPathNamedCall ==
  \E name \in CookieNames, val \in Payloads :
    LET r == SecureSetPath(secure, w, name, val, "/", now) IN
    /\ Len(w) < MaxDelHeader
    /\ w' = r.w
    /\ issued' = IF r.err = "nil"
                 THEN Append(issued, [op |-> "SetPath", val |-> val, at |-> now,
                                      key |-> secure.Secret])
                 ELSE issued
    /\ call' = [op |-> "SetPath", api |-> "Secure", name |-> name, val |-> val,
                age |-> secure.ExpirationTime, before |-> w, err |-> r.err]
    /\ UNCHANGED << now, secure, store, impl, perm, proc >>

\* secure.Del(w, name, "/")
DelNamedCall ==
  \E name \in CookieNames :
    /\ w' = SecureDel(w, name, "/")
    /\ issued' = << [op |-> "Del"] >>
    /\ call' = [op |-> "Del", api |-> "Secure", name |-> name, before |-> w]
    /\ UNCHANGED << now, secure, store, impl, perm, proc >>

\* Cookies of two names are set on a response and deleted from it.
NextDel ==
  \/ Tick
  \/ SetSecret
  \/ SetExpirationTime
  \/ NewRecorder
  \/ SetPathNamedCall
  \/ DelNamedCall

SpecDel == InitCookie /\ [][NextDel]_vars

(***************************************************************************)
(* The password policy called directly                                     *)
(***************************************************************************)

\* A password is a prefix followed by at most this many bytes.
MaxSuffix == 2

\* The bytes of a suffix: a lower case letter, an upper case letter, a digit,
\* a special character, and a byte that is none of these.
SuffixChars == { "a", "A", "1", "!", "." }

RECURSIVE SeqsUpTo(_, _)
SeqsUpTo(S, n) ==
  IF n = 0 THEN { << >> }
  ELSE LET shorter == SeqsUpTo(S, n - 1)
       IN shorter \cup { Append(q, c) : q \in shorter, c \in S }

\* The prefixes: nothing, a username, eight bytes of letters, of special
\* characters, and of neither.
PasswordPrefixes ==
  { << >>,
    << "a", "l", "i", "c", "e" >>,
    << "L", "o", "n", "g", "e", "n", "o", "u" >>,
    << "!", "#", "$", "%", "&", "*", "+", "-" >>,
    << ".", ".", ".", ".", ".", ".", ".", "." >> }

\* The passwords of the examples.
PasswordExamples ==
  { << "a", "l", "i", "c", "e" >>,
    << "a", "l", "i", "c", "e", "a", "l", "i", "c", "e" >>,
    << "S", "h", "0", "r", "t", "!" >>,
    << "l", "o", "n", "g", "e", "n", "o", "u", "g", "h", "b", "u", "t", "n", "o",
       "s", "p", "e", "c", "i", "a", "l", "1" >>,
    << "L", "o", "n", "g", "e", "n", "o", "u", "g", "h", "1", "!" >> }

PolicyPasswords ==
  PasswordExamples
    \cup { pre \o suf : pre \in PasswordPrefixes, suf \in SeqsUpTo(SuffixChars, MaxSuffix) }

PolicyUsernames ==
  { << >>,
    << "a", "l", "i", "c", "e" >>,
    << "A", "L", "I", "C", "E" >>,
    << "l", "o" >>,
    << "l", "o", "n", "g", "e", "n", "o", "u", "g", "h" >> }

\* The arguments are drawn here; nothing but the policy is used, and the
\* other variables stay as constructed.
InitPolicy ==
  /\ now = StartTime
  /\ secure = [ExpirationTime |-> DefaultCookieTime, Secret |-> << "k" >>]
  /\ w = << >>
  /\ issued = << >>
  /\ store = EmptyStore
  /\ impl = "current"
  /\ perm = NewFromUserState
  /\ proc = NoProc
  /\ call \in [op : { "arguments" }, username : PolicyUsernames, password : PolicyPasswords]

\* err := IsPasswordAllowed(username, password)
IsPasswordAllowedCall ==
  /\ call.op = "arguments"
  /\ call' = [op |-> "IsPasswordAllowed", username |-> call.username,
              password |-> call.password,
              err |-> IsPasswordAllowed(call.username, call.password)]
  /\ UNCHANGED << now, secure, w, issued, store, impl, perm, proc >>

NextPolicy == IsPasswordAllowedCall

SpecPolicy == InitPolicy /\ [][NextPolicy]_vars

(***************************************************************************)
(* UserState called by its users                                           *)
(***************************************************************************)

\* The datastore holds at most this many users.
MaxUsers == 1

\* The salts bcrypt draws.
Salts == { "s", "t" }

\* A backend.User as callers build it (Name, LastName and PhotoUrl, which no
\* operation reads or writes, are left out).
NewUser(email, username, password) ==
  [Email |-> email, Username |-> username, Password |-> password,
   Confirmed |-> FALSE, ConfirmationCode |-> << >>, Admin |-> FALSE,
   Loggedin |-> FALSE, Active |-> FALSE]

\* The users given to AddUser: the username the same as the email or not,
\* the password allowed or not, and one field empty.
UserInputs ==
  { NewUser(e, u, p) : e \in Names, u \in Names, p \in { weak, strong } }
    \cup { NewUser(<< >>, bob, strong), NewUser(bob, << >>, strong),
           NewUser(bob, bob, << >>) }

\* The users given to AddUser where only their names matter.
SessionUsers == { NewUser(n, n, strong) : n \in Names }

\* The values SetUserStatus is given for a property.
Values(prop) ==
  IF prop \in BoolProperties THEN BOOLEAN
  ELSE IF prop = "Password" THEN Passwords
  ELSE IF prop = "Email" THEN { << "b", "@", "x" >> }
  ELSE IF prop = "ConfirmationCode" THEN { << "c", "o", "d", "e" >> }
  ELSE Names

\* The salts to draw from, where the call hashes at all.
SaltsIf(hashing) == IF hashing THEN Salts ELSE { "s" }

\* The receiver of the UserState methods.
St == [version |-> impl, Secret |-> secure.Secret,
       ExpirationTime |-> secure.ExpirationTime, passwordAlgorithm |-> "bcrypt+"]

\* What SetPath is recorded to have written, if the header grew.
Issuing(after, username) ==
  IF Len(after) > Len(w)
  THEN Append(issued, [op |-> "SetPath", val |-> username, at |-> now,
                       key |-> secure.Secret])
  ELSE issued

\* NewUserState(), both versions: bcookie.New() and the default cookie time;
\* the second version draws its cookieSecret with GenReadable.
InitUsers ==
  /\ now = StartTime
  /\ secure \in [ExpirationTime : { DefaultCookieTime }, Secret : Secrets \ { << >> }]
  /\ w = << >>
  /\ issued = << >>
  /\ store = EmptyStore
  /\ impl \in { "current", "legacy" }
  /\ perm = NewFromUserState
  /\ proc = NoProc
  /\ call = NoCall

\* The process is started again: a new UserState over the same datastore,
\* with a newly drawn secret.
NewUserState ==
  \E k \in Secrets \ { << >>, secure.Secret } :
    /\ secure' = [ExpirationTime |-> DefaultCookieTime, Secret |-> k]
    /\ call' = [op |-> "NewUserState"]
    /\ UNCHANGED << now, w, issued, store, impl, perm, proc >>

\* state.SetCookieSecret(cookieSecret), of the second version
SetCookieSecret ==
  \E k \in Secrets \ { secure.Secret } :
    /\ impl = "legacy"
    /\ secure' = [secure EXCEPT !.Secret = k]
    /\ call' = [op |-> "SetCookieSecret"]
    /\ UNCHANGED << now, w, issued, store, impl, perm, proc >>

\* err := state.AddUser(&user), the datastore holding at most so many users
AddUserCallUpTo(inputs, most) ==
  \E user \in inputs :
    \E salt \in SaltsIf(impl = "current") :
    LET r == AddUser(St, store, user, salt) IN
    /\ Cardinality(DOMAIN r.users) <= most
    /\ store' = r.users
    /\ call' = [op |-> "AddUser", user |-> user, err |-> r.err, after |-> r.user]
    /\ UNCHANGED << now, secure, w, issued, impl, perm, proc >>

\* err := state.AddUser(&user)
AddUserCall(inputs) == AddUserCallUpTo(inputs, MaxUsers)

\* err := state.SetUserStatus(username, prop, val)
SetUserStatusCall(props) ==
  \E username \in Names, prop \in props :
    \E val \in Values(prop), salt \in SaltsIf(prop = "Password") :
      LET r == SetUserStatus(St, store, username, prop, val, salt) IN
      /\ store' = r.users
      /\ call' = [op |-> "SetUserStatus", username |-> username, prop |-> prop,
                  val |-> val, err |-> r.err, got |-> StoreGet(store, username)]
      /\ UNCHANGED << now, secure, w, issued, impl, perm, proc >>

\* ok := state.CheckUserPassword(username, password), IsUserPassword in the
\* second version
CheckUserPasswordCall ==
  /\ ~Reading
  /\ \E username \in Names, password \in Guesses :
       /\ call' = [op |-> "CheckUserPassword", username |-> username,
                   password |-> password,
                   ok |-> CheckUserPassword(St, store, username, password)]
       /\ UNCHANGED << now, secure, w, issued, store, impl, perm, proc >>

\* err := state.Login(w, username)
LoginCall ==
  \E username \in Names :
    LET r == Login(St, store, w, username, now) IN
    /\ Len(r.w) <= MaxHeader
    /\ store' = r.users
    /\ w' = r.w
    /\ issued' = Issuing(r.w, username)
    /\ call' = [op |-> "Login", username |-> username, err |-> r.err]
    /\ UNCHANGED << now, secure, impl, perm, proc >>

\* state.Logout(username)
LogoutCall ==
  \E username \in Names :
    LET r == Logout(St, store, username) IN
    /\ store' = r.users
    /\ call' = [op |-> "Logout", username |-> username, err |-> r.err]
    /\ UNCHANGED << now, secure, w, issued, impl, perm, proc >>

\* err := state.SetUsernameIntoCookie(w, username)
SetUsernameIntoCookieCall ==
  \E username \in Names \cup { << >> } :
    LET r == SetUsernameIntoCookie(St, store, w, username, now) IN
    /\ Len(r.w) <= MaxHeader
    /\ w' = r.w
    /\ issued' = Issuing(r.w, username)
    /\ call' = [op |-> "SetUsernameIntoCookie", username |-> username, err |-> r.err]
    /\ UNCHANGED << now, secure, store, impl, perm, proc >>

\* username, err := state.GetUsernameFromCookie(req)
GetUsernameFromCookieCall ==
  /\ ~Reading
  /\ \E r \in SessionRequests :
       /\ call' = [op |-> "GetUsernameFromCookie", how |-> r,
                   res |-> GetUsernameFromCookie(St, r.req, now)]
       /\ UNCHANGED << now, secure, w, issued, store, impl, perm, proc >>

\* The cookie of the session: users register, their name is put in a cookie,
\* requests come back with whatever a client made of it.
NextSession ==
  \/ Tick
  \/ NewRecorder
  \/ NewUserState
  \/ SetCookieSecret
  \/ AddUserCall(SessionUsers)
  \/ SetUsernameIntoCookieCall
  \/ GetUsernameFromCookieCall

SpecSession == InitUsers /\ [][NextSession]_vars

\* The passwords: users are added, their password and whether they are
\* active is changed, passwords are checked, users log in and out.
NextPassword ==
  \/ NewRecorder
  \/ AddUserCall(UserInputs)
  \/ SetUserStatusCall({ "Password", "Active" })
  \/ CheckUserPasswordCall
  \/ LoginCall
  \/ LogoutCall

SpecPassword == InitUsers /\ [][NextPassword]_vars

(***************************************************************************)
(* CheckUserPassword over the records a datastore can hold                 *)
(***************************************************************************)

\* The digest the comments of NewUserState call a sha256 hash: a digest over
\* the password, the server's secret and the username, in hex.  It is
\* modelled as an ideal one.
Sha256Digest(password, secret, username) ==
  Hex(password \o secret \o username)

\* What the Password of a stored user can hold: nothing, bcrypt hashes, a
\* sha256 digest of an earlier deployment, and values that are no hash: a
\* plaintext (as AddUser of the second version stores it), the head of a
\* hash alone, a hash cut short.
StoredValues(username) ==
  { << >>,
    HashBcrypt(strong, "s"),
    HashBcrypt(longest, "s"),
    Sha256Digest(strong, << "k" >>, username),
    strong,
    bcryptPrefix,
    SubSeq(HashBcrypt(strong, "s"), 1, 20) }

\* The datastore holds no user, or one; the arguments are drawn here.
InitVerify ==
  /\ now = StartTime
  /\ secure = [ExpirationTime |-> DefaultCookieTime, Secret |-> << "k" >>]
  /\ w = << >>
  /\ issued = << >>
  /\ store \in { EmptyStore }
       \cup UNION { { StorePut(EmptyStore, u, NewUser(u, u, h)) : h \in StoredValues(u) }
                    : u \in Names }
  /\ impl \in { "current", "legacy" }
  /\ perm = NewFromUserState
  /\ proc = NoProc
  /\ call \in [op : { "arguments" }, passwordAlgorithm : PasswordAlgorithms,
               username : Names, password : Guesses]

\* ok := state.CheckUserPassword(username, password) on a UserState whose
\* passwordAlgorithm is the one drawn
CheckUserPasswordUnder ==
  /\ call.op = "arguments"
  /\ call' = [op |-> "CheckUserPassword", passwordAlgorithm |-> call.passwordAlgorithm,
              username |-> call.username, password |-> call.password,
              ok |-> CheckUserPassword(
                       [St EXCEPT !.passwordAlgorithm = call.passwordAlgorithm],
                       store, call.username, call.password)]
  /\ UNCHANGED << now, secure, w, issued, store, impl, perm, proc >>

NextVerify == CheckUserPasswordUnder

SpecVerify == InitVerify /\ [][NextVerify]_vars

(***************************************************************************)
(* Permissions called by the server                                        *)
(***************************************************************************)

\* AddPath makes a list of prefixes at most this long.
MaxPrefixes == 2

\* The prefixes AddPath and SetPath are given.
PrefixChoices == { << "/" >>, << "/", "a", "d", "m", "i", "n" >>, << "/", "d", "a", "t", "a" >> }

\* The lists SetPath is given: none, or one prefix.
PrefixLists == { << >> } \cup { << p >> : p \in PrefixChoices }

\* The paths requested.
RequestPaths ==
  { << "/" >>, << "/", "a", "d", "m", "i", "n" >>, << "/", "a", "d", "m", "i", "n", "2" >>, << "/", "a", "d", "m", "i", "n", "x" >>,
    << "/", "a", "d", "m", "i", "n", "/", "x" >>, << "/", "d", "a", "t", "a" >>, << "/", "u", "n", "l", "i", "s", "t", "e", "d" >> }

\* The requests: a path, by a user who is or is not logged in, is or is not
\* admin.
PermRequests == [Path : RequestPaths, isLoggedIn : BOOLEAN, isAdmin : BOOLEAN]

\* New(): a UserState, and the Permissions NewFromUserState makes of it.
InitPermissions ==
  /\ now = StartTime
  /\ secure = [ExpirationTime |-> DefaultCookieTime, Secret |-> << "k" >>]
  /\ w = << >>
  /\ issued = << >>
  /\ store = EmptyStore
  /\ impl = "current"
  /\ perm = NewFromUserState
  /\ proc = NoProc
  /\ call = NoCall

\* The configuration does not depend on what was read before it is changed:
\* it is changed from the states that are not the result of a read.

\* perms, err := New()
New ==
  /\ ~Reading
  /\ perm # NewFromUserState
  /\ perm' = NewFromUserState
  /\ call' = [op |-> "New"]
  /\ UNCHANGED << now, secure, w, issued, store, impl, proc >>

\* perm.SetDenyFunc(f)
SetDenyFuncCall ==
  \E f \in { DefaultDenyFunc, "deny" } \ { perm.denied } :
    /\ ~Reading
    /\ perm' = SetDenyFunc(perm, f)
    /\ call' = [op |-> "SetDenyFunc"]
    /\ UNCHANGED << now, secure, w, issued, store, impl, proc >>

\* perm.Reset()
ResetCall ==
  /\ ~Reading
  /\ perm' = Reset(perm)
  /\ call' = [op |-> "Reset"]
  /\ UNCHANGED << now, secure, w, issued, store, impl, proc >>

\* perm.AddPath(valid, prefix)
AddPathCall ==
  \E valid \in { aPaths, uPaths, pPaths }, prefix \in PrefixChoices :
    /\ ~Reading
    /\ Len(perm.paths[valid]) < MaxPrefixes
    /\ perm' = AddPath(perm, valid, prefix)
    /\ call' = [op |-> "AddPath"]
    /\ UNCHANGED << now, secure, w, issued, store, impl, proc >>

\* perm.SetPath(valid, pathPrefixes)
SetPathCall ==
  \E valid \in { aPaths, uPaths, pPaths }, pathPrefixes \in PrefixLists :
    /\ ~Reading
    /\ perm' = SetPath(perm, valid, pathPrefixes)
    /\ call' = [op |-> "SetPath"]
    /\ UNCHANGED << now, secure, w, issued, store, impl, proc >>

\* reject := perm.Rejected(w, req)
RejectedCall ==
  /\ ~Reading
  /\ \E req \in PermRequests :
       /\ call' = [op |-> "Rejected", req |-> req, reject |-> Rejected(perm, req)]
       /\ UNCHANGED << now, secure, w, issued, store, impl, perm, proc >>

\* perm.ServeHTTP(w, req, next)
ServeHTTPCall ==
  /\ ~Reading
  /\ \E req \in PermRequests, next \in { "next", DefaultDenyFunc } :
       /\ call' = [op |-> "ServeHTTP", req |-> req, next |-> next,
                   reject |-> Rejected(perm, req),
                   called |-> ServeHTTP(perm, req, next)]
       /\ UNCHANGED << now, secure, w, issued, store, impl, perm, proc >>

NextPermissions ==
  \/ New
  \/ SetDenyFuncCall
  \/ ResetCall
  \/ AddPathCall
  \/ SetPathCall
  \/ RejectedCall
  \/ ServeHTTPCall

SpecPermissions == InitPermissions /\ [][NextPermissions]_vars

(***************************************************************************)
(* The confirmation codes drawn for the users of the datastore             *)
(***************************************************************************)

\* The confirmation codes users are registered with: of the lengths the
\* generators draw first, and of the length after it.
StoredCodes ==
  { [i \in 1..n |-> allowed[1]] :
      n \in { minConfirmationCodeLength, minConfirmationCodeLength + 1,
              GenConfirmationCodeLength } }

\* The users given to AddUser, with a confirmation code, confirmed or not.
ConfirmInputs ==
  { [NewUser(e, u, strong) EXCEPT !.ConfirmationCode = c, !.Confirmed = b] :
      e \in Names, u \in Names, c \in StoredCodes, b \in BOOLEAN }

\* code := state.GenConfirmationCode(), of the first version
GenConfirmationCodeCall ==
  /\ impl = "current"
  /\ proc = NoProc
  /\ ~Reading
  /\ \E code \in GenConfirmationCode :
       /\ call' = [op |-> "GenConfirmationCode", confirmationCode |-> code,
                   err |-> "nil"]
       /\ UNCHANGED << now, secure, w, issued, store, impl, perm, proc >>

\* ok := state.AlreadyHasConfirmationCode(confirmationCode), of the second
\* version
AlreadyHasConfirmationCodeCall ==
  /\ impl = "legacy"
  /\ proc = NoProc
  /\ ~Reading
  /\ \E code \in StoredCodes, listed \in GetAllFiltered(store, "Users") :
       /\ call' = [op |-> "AlreadyHasConfirmationCode", confirmationCode |-> code,
                   listed |-> listed,
                   ok |-> AlreadyHasConfirmationCode(St, store, code, listed)]
       /\ UNCHANGED << now, secure, w, issued, store, impl, perm, proc >>

\* state.GenerateUniqueConfirmationCode() is called, of the second version:
\* the first candidate is drawn.
GenerateUniqueConfirmationCodeCall ==
  /\ impl = "legacy"
  /\ proc = NoProc
  /\ ~Reading
  /\ \E drawn \in GenReadable(minConfirmationCodeLength), taken \in { "stored", "every" } :
       /\ proc' = GenerateBegin(drawn, taken)
       /\ call' = [op |-> "go GenerateUniqueConfirmationCode"]
       /\ UNCHANGED << now, secure, w, issued, store, impl, perm >>

\* One turn of its loop: AlreadyHasConfirmationCode is asked, and on a
\* collision the next candidate is drawn.
GenerateLoop ==
  /\ proc # NoProc
  /\ proc.op = "GenerateUniqueConfirmationCode"
  /\ proc.pc = "for"
  /\ proc.length <= maxConfirmationCodeLength
  /\ \E listed \in GetAllFiltered(store, "Users"), drawn \in GenReadable(proc.length + 1) :
       LET inUse == \/ proc.taken = "every"
                    \/ AlreadyHasConfirmationCode(St, store, proc.confirmationCode, listed)
       IN proc' = GenerateTurn(proc, inUse, drawn)
  /\ UNCHANGED << now, secure, w, issued, store, impl, perm, call >>

\* It returns the pair (confirmationCode, err).
GenerateReturn ==
  /\ proc # NoProc
  /\ proc.op = "GenerateUniqueConfirmationCode"
  /\ proc.pc = "return"
  /\ call' = [op |-> "GenerateUniqueConfirmationCode",
              confirmationCode |-> proc.confirmationCode, err |-> proc.err,
              taken |-> proc.taken, first |-> proc.first, asked |-> proc.asked,
              answer |-> proc.answer]
  /\ proc' = NoProc
  /\ UNCHANGED << now, secure, w, issued, store, impl, perm >>

\* Users are registered and confirmed while no code is being generated, and
\* codes are generated for them.
NextConfirm ==
  \/ (proc = NoProc /\ AddUserCall(ConfirmInputs))
  \/ (proc = NoProc /\ SetUserStatusCall({ "Confirmed" }))
  \/ GenConfirmationCodeCall
  \/ AlreadyHasConfirmationCodeCall
  \/ GenerateUniqueConfirmationCodeCall
  \/ GenerateLoop
  \/ GenerateReturn

\* A call that has begun goes on to its end.
SpecConfirm ==
  /\ InitUsers
  /\ [][NextConfirm]_vars
  /\ WF_vars(GenerateLoop)
  /\ WF_vars(GenerateReturn)

(***************************************************************************)
(* The user of a confirmation code                                         *)
(***************************************************************************)

\* Two users are registered here, each of whom may bear as Username the Email
\* of the other.
MaxCodeUsers == 2

\* username, err := state.GetUserByConfirmationCode(confirmationcode),
\* FindUserByConfirmationCode in the second version
GetUserByConfirmationCodeCall ==
  /\ proc = NoProc
  /\ ~Reading
  /\ \E code \in StoredCodes, listed \in GetAllFiltered(store, "Users") :
       /\ call' = [op |-> "GetUserByConfirmationCode", confirmationCode |-> code,
                   listed |-> listed,
                   res |-> GetUserByConfirmationCode(St, store, code, listed)]
       /\ UNCHANGED << now, secure, w, issued, store, impl, perm, proc >>

\* Users are registered, confirmed and unconfirmed, and looked up by their
\* confirmation code.
NextLookup ==
  \/ (~Reading /\ AddUserCallUpTo(ConfirmInputs, MaxCodeUsers))
  \/ (~Reading /\ SetUserStatusCall({ "Confirmed" }))
  \/ GetUserByConfirmationCodeCall

SpecLookup == InitUsers /\ [][NextLookup]_vars

(***************************************************************************)
(* SetUserStatus called from two goroutines                                *)
(***************************************************************************)

\* The calls of SetUserStatus that run at the same time.
Goroutines == 2

\* The properties they set.
RaceProperties == { "Admin", "Confirmed", "Email" }

\* go state.SetUserStatus(username, prop, val): the call runs its first line,
\* state.users.Get(username).
SetUserStatusGet ==
  /\ Len(proc) < Goroutines
  /\ \A i \in 1..Len(proc) : proc[i].pc = "switch"
  /\ \E username \in Names, prop \in RaceProperties :
       \E val \in Values(prop) :
         proc' = Append(proc, [op |-> "SetUserStatus", pc |-> "switch",
                               username |-> username, prop |-> prop, val |-> val,
                               got |-> StoreGet(store, username), err |-> "nil",
                               turn |-> 0])
  /\ call' = [op |-> "go SetUserStatus"]
  /\ UNCHANGED << now, secure, w, issued, store, impl, perm >>

\* The calls that have returned.
Finished == { i \in 1..Len(proc) : proc[i].pc = "return" }

\* A call goes on from its switch to its return: it changes the record it
\* read and Puts it.
SetUserStatusPut ==
  \E i \in 1..Len(proc) :
    /\ proc[i].pc = "switch"
    /\ LET g == proc[i]
           r == SetUserStatusFrom(St, store, g.got, g.username, g.prop, g.val, "s")
       IN /\ store' = r.users
          /\ proc' = [proc EXCEPT ![i].pc = "return", ![i].err = r.err,
                                  ![i].turn = Cardinality(Finished) + 1]
    /\ UNCHANGED << now, secure, w, issued, impl, perm, call >>

\* All the calls have returned: the caller has their errors.
Wait ==
  /\ Len(proc) > 0
  /\ Finished = 1..Len(proc)
  /\ call' = [op |-> "Wait", calls |-> proc]
  /\ proc' = NoProc
  /\ UNCHANGED << now, secure, w, issued, store, impl, perm >>

\* Users are registered, and their status is set by calls that run one at a
\* time or two at a time.
NextRace ==
  \/ (proc = NoProc /\ AddUserCall(SessionUsers))
  \/ SetUserStatusGet
  \/ SetUserStatusPut
  \/ Wait

SpecRace == InitUsers /\ [][NextRace]_vars

(***************************************************************************)
(* The status of the users set and read                                    *)
(***************************************************************************)

\* res, err := state.GetUserStatus(id, prop); with it, the SetUserStatus it
\* follows, if it follows one.
GetUserStatusCall ==
  /\ ~Reading
  /\ \E id \in Names, prop \in UserProperties :
       /\ call' = [op |-> "GetUserStatus", id |-> id, prop |-> prop,
                   res |-> GetUserStatus(St, store, id, prop),
                   set |-> IF call.op = "SetUserStatus" THEN call ELSE NoCall]
       /\ UNCHANGED << now, secure, w, issued, store, impl, perm, proc >>

\* ok := state.HasUser(username), user, err := state.GetUser(username)
HasUserCall ==
  /\ ~Reading
  /\ \E username \in Names :
       /\ call' = [op |-> "HasUser", username |-> username,
                   ok |-> HasUser(store, username),
                   got |-> GetUser(store, username)]
       /\ UNCHANGED << now, secure, w, issued, store, impl, perm, proc >>

\* The properties set here; Password is set in SpecPassword.
StatusProperties == UserProperties \ { "Password" }

\* Users are registered, their properties are set and read.
NextStatus ==
  \/ (~Reading /\ AddUserCall(UserInputs))
  \/ (~Reading /\ SetUserStatusCall(StatusProperties))
  \/ GetUserStatusCall
  \/ HasUserCall

SpecStatus == InitUsers /\ [][NextStatus]_vars

(***************************************************************************)
(* IsCurrentUserAdmin: who a request is taken to come from                 *)
(***************************************************************************)

\* Two users are registered here: one the administrator, one not.
MaxAdminUsers == 2

\* ok, err := state.IsCurrentUserAdmin(req)
IsCurrentUserAdminCall ==
  /\ ~Reading
  /\ \E r \in SessionRequests :
       /\ call' = [op |-> "IsCurrentUserAdmin", how |-> r,
                   res |-> IsCurrentUserAdmin(St, store, r.req, now)]
       /\ UNCHANGED << now, secure, w, issued, store, impl, perm, proc >>

\* Users register, are made administrator and logged in or out; then the name
\* of one is put in a cookie, time passes over it, and requests come back with
\* whatever a client made of it.
NextAdmin ==
  \/ (~Reading /\ Len(w) > 0 /\ Tick)
  \/ (~Reading /\ Len(w) = 0 /\ AddUserCallUpTo(SessionUsers, MaxAdminUsers))
  \/ (~Reading /\ Len(w) = 0 /\ SetUserStatusCall({ "Admin", "Loggedin" }))
  \/ (~Reading /\ SetUsernameIntoCookieCall)
  \/ IsCurrentUserAdminCall

SpecAdmin == InitUsers /\ [][NextAdmin]_vars

(***************************************************************************)
(* Logging out: what the cookie is worth afterwards                        *)
(***************************************************************************)

\* state.ClearCookie(w)
ClearCookieCall ==
  /\ w' = ClearCookie(St, w)
  /\ issued' = << [op |-> "Del"] >>
  /\ call' = [op |-> "ClearCookie", before |-> w]
  /\ UNCHANGED << now, secure, store, impl, perm, proc >>

\* A user registers, is activated and made administrator, logs in and out
\* and has the cookie cleared, while requests come back with whatever a client
\* made of the cookie it holds.
NextLogout ==
  \/ (~Reading /\ Len(w) > 0 /\ Tick)
  \/ (~Reading /\ NewRecorder)
  \/ (~Reading /\ AddUserCall({ NewUser(bob, bob, strong) }))
  \/ (~Reading /\ SetUserStatusCall({ "Admin", "Active", "Loggedin" }))
  \/ (~Reading /\ LoginCall)
  \/ (~Reading /\ LogoutCall)
  \/ (~Reading /\ ClearCookieCall)
  \/ IsCurrentUserAdminCall

SpecLogout == InitUsers /\ [][NextLogout]_vars

(***************************************************************************)
(* Registering a user again                                                *)
(***************************************************************************)

\* The users a registration handler gives to AddUser: one email, the
\* password allowed or not.
RegisterInputs == { NewUser(bob, bob, p) : p \in { weak, strong, strong2 } }

\* err := state.AddUser(&user), with what the datastore held under the key
\* of the user before the call
AddUserOverCall(inputs) ==
  \E user \in inputs :
    \E salt \in SaltsIf(impl = "current") :
    LET r == AddUser(St, store, user, salt) IN
    /\ Cardinality(DOMAIN r.users) <= MaxUsers
    /\ store' = r.users
    /\ call' = [op |-> "AddUser", user |-> user, err |-> r.err, after |-> r.user,
                had |-> StoreGet(store, user.Email)]
    /\ UNCHANGED << now, secure, w, issued, impl, perm, proc >>

\* err := state.AddUser(user) once more with the user object the call before
\* was given, as a handler that builds its user once and registers it on
\* every request does: the object is as the first call left it.
AddUserAgainCall ==
  /\ call.op = "AddUser"
  /\ call.err = "nil"
  /\ \E salt \in SaltsIf(impl = "current") :
       LET r == AddUser(St, store, call.after, salt) IN
       /\ store' = r.users
       /\ call' = [op |-> "AddUserAgain", user |-> call.after, err |-> r.err,
                   after |-> r.user, had |-> StoreGet(store, call.after.Email),
                   first |-> call.user]
       /\ UNCHANGED << now, secure, w, issued, impl, perm, proc >>

\* Registering: users are added, over a record that is there or not, their
\* flags are set, their password is checked.
NextRegister ==
  \/ (~Reading /\ AddUserOverCall(RegisterInputs))
  \/ (~Reading /\ AddUserAgainCall)
  \/ (~Reading /\ SetUserStatusCall(BoolProperties))
  \/ CheckUserPasswordCall

SpecRegister == InitUsers /\ [][NextRegister]_vars

(***************************************************************************)
(* Login while the secret is changed and records are deleted               *)
(***************************************************************************)

\* err := state.Login(w, username), its first part: Login returns an error,
\* or it has set the Loggedin flag and is about to write the cookie.
LoginBegin ==
  /\ proc = NoProc
  /\ \E username \in Names :
       LET r == LoginSetStatus(St, store, username)
           had == StoreGet(store, username)
       IN
       /\ store' = r.users
       /\ IF r.err # "nil"
          THEN /\ call' = [op |-> "Login", username |-> username, err |-> r.err,
                           had |-> had]
               /\ proc' = proc
          ELSE /\ call' = [op |-> "go Login"]
               /\ proc' = << [op |-> "Login", pc |-> "SetUsernameIntoCookie",
                              username |-> username, had |-> had] >>
  /\ UNCHANGED << now, secure, w, issued, impl, perm >>

\* The second part: Login returns what SetUsernameIntoCookie returns.
LoginEnd ==
  /\ proc # NoProc
  /\ LET g == proc[1]
         r == SetUsernameIntoCookie(St, store, w, g.username, now)
     IN
     /\ Len(r.w) <= MaxHeader
     /\ w' = r.w
     /\ issued' = Issuing(r.w, g.username)
     /\ call' = [op |-> "Login", username |-> g.username, err |-> r.err,
                 had |-> g.had]
  /\ proc' = NoProc
  /\ UNCHANGED << now, secure, store, impl, perm >>

\* err := state.Database().Del(key), by another handler
DatastoreDel ==
  \E key \in DOMAIN store :
    /\ store' = StoreDel(store, key)
    /\ call' = [op |-> "Datastore.Del", key |-> key]
    /\ UNCHANGED << now, secure, w, issued, impl, perm, proc >>

\* A user is registered, activated, logged in and out; the secret is set,
\* to the empty one too; a record is deleted, also while Login runs.
NextLogin ==
  \/ (proc = NoProc /\ NewRecorder)
  \/ (proc = NoProc /\ AddUserCall({ NewUser(bob, bob, strong) }))
  \/ (proc = NoProc /\ SetUserStatusCall({ "Active", "Loggedin" }))
  \/ (proc = NoProc /\ impl = "current" /\ SetSecret)
  \/ (proc = NoProc /\ SetCookieSecret)
  \/ LoginBegin
  \/ LoginEnd
  \/ DatastoreDel

SpecLogin == InitUsers /\ [][NextLogin]_vars

(***************************************************************************)
(* Claims on the cookie layer                                              *)
(***************************************************************************)

\* The last call was a Get of the given kind of request.
GotRequest(kind) == call.op = "Get" /\ call.how.kind = kind

\* What wrote the line of w the last Get's request was made from.
Origin == issued[call.how.orig]

\* The last Get returned a payload: (val, nil) or (val, true).
Returned ==
  /\ call.res.ret = "ok"
  /\ IF call.api = "Secure" THEN call.res.err = "nil" ELSE call.res.ok

\* C1: a cookie written by SetPath and read back by Get with the same
\* (non-empty) secret while the token is at most 31 days old yields exactly
\* the payload given to SetPath, whatever the payload (empty, or holding the
\* delimiter) and whatever the expiration time.
C1_RoundTrip ==
  (GotRequest("intact") /\ Origin.op = "SetPath"
     /\ Origin.key = secure.Secret /\ now - Origin.at <= FreshnessWindow)
  => (Returned /\ call.res.val = Origin.val)

\* C1 happens: a payload holding the delimiter, written with expiration time
\* 0, is read back 31 days later.
C1_Witness ==
  /\ GotRequest("intact") /\ Origin.op = "SetPath"
  /\ Origin.key = secure.Secret
  /\ Origin.val = << "a", "|", "b" >>
  /\ w[call.how.orig].Expires = FarFuture
  /\ now - Origin.at = FreshnessWindow
  /\ Returned /\ call.res.val = << "a", "|", "b" >>

\* C2: a token written by SetPath in which one byte of the payload segment,
\* of the timestamp segment or of the signature segment was replaced is
\* rejected by Get: no payload is returned for it.
C2_TamperEvidence ==
  (GotRequest("tampered") /\ call.how.seg \in { "payload", "timestamp", "signature" })
  => (call.res.ret # "ok" /\ call.res.val = << >>
        /\ (call.api = "cookies" => ~call.res.ok))

\* C2 happens: a fresh token under the current secret, one byte of its
\* timestamp replaced by a digit, is rejected for its signature.
C2_Witness ==
  /\ GotRequest("tampered") /\ call.how.seg = "timestamp"
  /\ Origin.key = secure.Secret /\ now - Origin.at <= 1
  /\ Len(SplitN(call.how.req[1].Value, "|", 3)) = 3
  /\ ParseInt0(SplitN(call.how.req[1].Value, "|", 3)[2]).n >= now - FreshnessWindow
  /\ call.res.ret = "signature"

\* C3: a correctly signed token is accepted by Get iff now - timestamp is at
\* most 31 days, whatever expiration time the cookie was written with.
C3_Freshness ==
  (GotRequest("intact") /\ Origin.op = "SetPath" /\ Origin.key = secure.Secret)
  => (Returned <=> now - Origin.at <= FreshnessWindow)

\* C3 happens: a token written with the default expiration time of a day is
\* accepted when it is exactly 31 days old,
C3_Witness ==
  /\ GotRequest("intact") /\ Origin.op = "SetPath" /\ Origin.key = secure.Secret
  /\ w[call.how.orig].Expires = Origin.at + DefaultCookieTime
  /\ now - Origin.at = FreshnessWindow
  /\ Returned

\* and rejected one second later.
C3_WitnessExpired ==
  /\ GotRequest("intact") /\ Origin.op = "SetPath" /\ Origin.key = secure.Secret
  /\ now - Origin.at = FreshnessWindow + 1
  /\ call.res.ret = "expired"

\* C4: whenever (s *Secure) Get does not return the decoded payload it
\* returns a non-nil error: never the empty string with a nil error.
C4_ErrorOnFailure ==
  (call.op = "Get" /\ call.api = "Secure" /\ call.res.ret # "ok")
  => call.res.err # "nil"

\* C4 fails here: a cookie that is no token is answered with ("", nil).
C4_NilError ==
  /\ GotRequest("garbage") /\ call.api = "Secure"
  /\ call.how.req[1].Value = << "a", "b", "c" >>
  /\ call.res.val = << >> /\ call.res.err = "nil" /\ call.res.ret = "malformed"

C7_EmptySecret ==
  (call.op = "SetPath" /\ Len(secure.Secret) = 0)
  => (call.err # "nil" /\ w = call.before)

\* C7 happens: both SetPath functions were called with the empty secret.
C7_Witness ==
  /\ call.op = "SetPath" /\ Len(secure.Secret) = 0
  /\ call.api = "cookies" /\ call.err = ErrNoCookie /\ w = << >>

(***************************************************************************)
(* Claims on the password policy                                           *)
(***************************************************************************)

\* The five conditions, as the specification words them.
NotEqual(u, p) == ToLower(u) # ToLower(p)
FarEnough(u, p) ==
  LevenshteinDistance(ToLower(u), ToLower(p)) >= Len(p) - (Len(p) \div 4)
LongEnough(p) == Len(p) >= 9
HasAlnum(p) == \E i \in 1..Len(p) : IsDigit(p[i]) \/ IsUpper(p[i]) \/ IsLower(p[i])
HasSpecial(p) ==
  \E i \in 1..Len(p) :
    p[i] \in { "!", "#", "$", "%", "&", "*", "+", "-", "?", "@", "^", "_", "~" }

Genuine ==
  /\ call.how.kind = "intact"
  /\ Origin.op = "SetPath"
  /\ Origin.key = secure.Secret
  /\ now - Origin.at <= FreshnessWindow

\* C5: GetUsernameFromCookie returns the username that was set, with a nil
\* error, when the request's cookie was written by SetUsernameIntoCookie under
\* the current secret and is within the freshness window; for every other
\* request (no cookie, malformed, forged, expired) it returns an error and no
\* username.
C5_Unauthenticated ==
  call.op = "GetUsernameFromCookie" =>
    IF Genuine
    THEN call.res.err = "nil" /\ call.res.username = Origin.val
    ELSE call.res.err # "nil" /\ call.res.username = << >>

\* C5 fails here: the token of "bobם4" with its delimiter moved four
\* bytes to the left is no token SetUsernameIntoCookie wrote, and is read as
\* the username "bob", with a nil error, also after 31 days.
C5_Forged ==
  /\ call.op = "GetUsernameFromCookie"
  /\ impl = "current"
  /\ call.how.kind = "respliced"
  /\ Origin.val = evil
  /\ now - Origin.at > FreshnessWindow
  /\ call.res.err = "nil"
  /\ call.res.username = bob

\* C5 fails here too: the second version returns an error for the very cookie
\* SetUsernameIntoCookie wrote a moment ago.
C5_LegacyRefuses ==
  /\ call.op = "GetUsernameFromCookie"
  /\ impl = "legacy"
  /\ Genuine /\ now = Origin.at
  /\ call.res.err # "nil"

\* C10: AddUser, and SetUserStatus with property Password, apply
\* IsPasswordAllowed first and leave the datastore as it is when the policy
\* rejects the password; CheckUserPassword and Login do not apply the policy:
\* the first compares the hash and nothing else, the second succeeds for
\* every active user.
C10_PolicyBeforeStore ==
  [][ /\ (call'.op = "AddUser"
            /\ IsPasswordAllowed(call'.user.Username, call'.user.Password) # "nil")
         => (call'.err # "nil" /\ store' = store)
      /\ (call'.op = "SetUserStatus" /\ call'.prop = "Password"
            /\ IsPasswordAllowed(call'.username, call'.val) # "nil")
         => (call'.err # "nil" /\ store' = store)
      /\ call'.op = "CheckUserPassword"
         => (call'.ok <=> /\ call'.username \in DOMAIN store
                          /\ correctBcrypt(store[call'.username].Password,
                                           call'.password))
      /\ call'.op = "Login"
         => (call'.err = "nil" <=> /\ call'.username \in DOMAIN store
                                   /\ store[call'.username].Active)
    ]_vars

\* C10 fails here: the second version hashes and stores the password "4321",
\* which the policy rejects, and returns nil.
C10_WeakStored ==
  /\ call.op = "SetUserStatus" /\ call.prop = "Password"
  /\ impl = "legacy"
  /\ call.val = weak
  /\ IsPasswordAllowed(call.username, call.val) # "nil"
  /\ call.err = "nil"
  /\ correctBcrypt(store[call.username].Password, weak)

(***************************************************************************)
(* Claims on the stored passwords                                          *)
(***************************************************************************)

\* The value is what HashBcrypt returns for one of the passwords given.
ProducedByHash(h) ==
  \E p \in Passwords, salt \in Salts : h = HashBcrypt(p, salt)

\* C11: after any sequence of AddUser and SetUserStatus calls the Password
\* of every user in the datastore is a hash that HashBcrypt produced, and
\* after a call that stored a password no user's Password is the plaintext
\* the caller gave.
C11_HashNeverPlaintext ==
  /\ \A k \in DOMAIN store : ProducedByHash(store[k].Password)
  /\ (call.op = "AddUser" /\ call.err = "nil")
       => \A k \in DOMAIN store : store[k].Password # call.user.Password
  /\ (call.op = "SetUserStatus" /\ call.prop = "Password" /\ call.err = "nil")
       => \A k \in DOMAIN store : store[k].Password # call.val

\* C11 fails here: AddUser of the second version returned nil and the user
\* is in the datastore with the password as the caller gave it.
C11_PlaintextStored ==
  /\ call.op = "AddUser"
  /\ impl = "legacy"
  /\ call.err = "nil"
  /\ call.user.Password = weak
  /\ call.user.Email \in DOMAIN store
  /\ store[call.user.Email].Password = weak

\* C11 in the first version: AddUser returned nil and the user is in the
\* datastore with the hash of the password.
C11_HashStored ==
  /\ call.op = "AddUser"
  /\ impl = "current"
  /\ call.err = "nil"
  /\ call.user.Email \in DOMAIN store
  /\ correctBcrypt(store[call.user.Email].Password, call.user.Password)


\* The last call stored a password and returned nil.
StoredPassword(c) ==
  /\ c.op \in { "AddUser", "SetUserStatus" }
  /\ c.op = "SetUserStatus" => c.prop = "Password"
  /\ c.err = "nil"

\* With these users, password p verifies for user u and no other password
\* that can be asked about does.
OnlyPassword(users, u, p) ==
  /\ CheckUserPassword(St, users, u, p)
  /\ \A q \in Guesses \ { p } : ~CheckUserPassword(St, users, u, q)

\* C12: once AddUser or SetUserStatus(u, Password, p) has returned nil, and
\* until a password is stored again, CheckUserPassword(u, p) is true and
\* CheckUserPassword(u, q) is false for every q other than p (u being the key
\* the user is stored under): the call that stores p leaves the datastore so,
\* and no other call changes what CheckUserPassword answers.
C12_StoredPasswordVerifies ==
  [][ /\ (call'.op = "AddUser" /\ StoredPassword(call'))
         => OnlyPassword(store', call'.user.Email, call'.user.Password)
      /\ (call'.op = "SetUserStatus" /\ StoredPassword(call'))
         => OnlyPassword(store', call'.username, call'.val)
      /\ ~StoredPassword(call')
         => \A u \in Names, q \in Guesses :
              CheckUserPassword(St, store', u, q) = CheckUserPassword(St, store, u, q)
    ]_vars

\* C12 fails here: the password of the user is as AddUser of the second
\* version stored it, and CheckUserPassword with that password is false.
C12_RightRefused ==
  /\ call.op = "CheckUserPassword"
  /\ impl = "legacy"
  /\ call.username \in DOMAIN store
  /\ store[call.username].Password = strong
  /\ call.password = strong
  /\ ~call.ok

\* C12 fails here too: the stored hash is that of a password of 72 bytes, or
\* of a password p, and CheckUserPassword is true for the 72 bytes followed
\* by one more, or for p, a zero byte, and p again.
C12_WrongAccepted ==
  /\ call.op = "CheckUserPassword"
  /\ impl = "current"
  /\ call.ok
  /\ \E salt \in Salts :
       \/ /\ store[call.username].Password = HashBcrypt(longest, salt)
          /\ call.password = Append(longest, "y")
       \/ /\ store[call.username].Password = HashBcrypt(strong, salt)
          /\ call.password = strong \o << Chr(0) >> \o strong


\* The stored Password of the user the last call asked about.
StoredFor(c) == store[c.username].Password

\* C13: under "bcrypt+" a stored sha256 digest (over password, secret and
\* username) verifies for the password it was made of, and a stored bcrypt
\* hash is verified through bcrypt as under "bcrypt"; under "sha256" the
\* password a stored digest was made of verifies too.
C13_LegacyDigests ==
  (call.op = "CheckUserPassword" /\ call.username \in DOMAIN store)
    => /\ ( /\ call.passwordAlgorithm \in { "bcrypt+", "sha256" }
            /\ StoredFor(call) = Sha256Digest(call.password, secure.Secret, call.username) )
          => call.ok
       /\ ( /\ call.passwordAlgorithm = "bcrypt+"
            /\ \E p \in Passwords, salt \in Salts : StoredFor(call) = HashBcrypt(p, salt) )
          => (call.ok <=> correctBcrypt(StoredFor(call), call.password))

\* C13 fails here: under "bcrypt+" the stored value is the sha256 digest of
\* the password asked about, and CheckUserPassword is false.
C13_DigestRefused ==
  /\ call.op = "CheckUserPassword"
  /\ call.passwordAlgorithm = "bcrypt+"
  /\ call.username \in DOMAIN store
  /\ StoredFor(call) = Sha256Digest(strong, secure.Secret, call.username)
  /\ call.password = strong
  /\ ~call.ok

\* The part of C13 that holds: under "bcrypt+" a stored bcrypt hash verifies
\* for its password.
C13_BcryptVerified ==
  /\ call.op = "CheckUserPassword"
  /\ call.passwordAlgorithm = "bcrypt+"
  /\ call.username \in DOMAIN store
  /\ StoredFor(call) = HashBcrypt(strong, "s")
  /\ call.password = strong
  /\ call.ok


\* The value has the shape of a bcrypt hash: the head, a salt, and a digest
\* of two hex digits for each byte of the key.
WellFormedHash(h) ==
  /\ Len(h) = Len(bcryptPrefix) + 1 + 2 * BcryptKeyLen
  /\ SubSeq(h, 1, Len(bcryptPrefix)) = bcryptPrefix
  /\ \A i \in (Len(bcryptPrefix) + 2)..Len(h) :
       \E d \in 1..Len(HexDigits) : h[i] = HexDigits[d]

\* C14: when the user does not exist, or the stored Password is empty or is
\* no well formed hash, CheckUserPassword returns false for every password,
\* under every password algorithm, and leaves the datastore as it is.
C14_FalseWithoutHash ==
  [][ ( /\ call'.op = "CheckUserPassword"
        /\ \/ call'.username \notin DOMAIN store
           \/ ~WellFormedHash(store[call'.username].Password) )
      => (call'.ok = FALSE /\ store' = store)
    ]_vars

\* C14 happens: the stored Password is no hash but the very password asked
\* about, and CheckUserPassword returned false.
C14_Witness ==
  /\ call.op = "CheckUserPassword"
  /\ call.passwordAlgorithm = "bcrypt+"
  /\ call.ok = FALSE
  /\ call.username \in DOMAIN store
  /\ StoredFor(call) = strong
  /\ call.password = strong

\* C14 happens: no such user.
C14_WitnessNoUser ==
  /\ call.op = "CheckUserPassword"
  /\ call.username \notin DOMAIN store
  /\ call.ok = FALSE


(***************************************************************************)
(* Claims on the permissions                                               *)
(***************************************************************************)

\* The last call was Rejected, for a request that is not the public root.
DecidedBelowRoot ==
  /\ call.op = "Rejected"
  /\ ~(perm.rootIsPublic /\ call.req.Path = << "/" >>)

\* The path of the last request starts with a prefix of the list.
Starts(valid) == AnyPrefix(call.req.Path, perm.paths[valid])

\* C15: for a path other than the public root that starts with an admin
\* prefix, Rejected allows the request exactly when the caller is logged in
\* and admin, whatever the user and the public prefixes are.
C15_AdminAuthoritative ==
  (DecidedBelowRoot /\ Starts(aPaths))
    => (call.reject <=> ~(call.req.isLoggedIn /\ call.req.isAdmin))

\* C15 fails here: a logged in admin asks for /admin, an admin prefix, no
\* public prefix is a prefix of it, and the request is rejected.
C15_AdminRefused ==
  /\ DecidedBelowRoot
  /\ call.req.Path = << "/", "a", "d", "m", "i", "n" >>
  /\ Starts(aPaths)
  /\ ~Starts(pPaths)
  /\ call.req.isLoggedIn /\ call.req.isAdmin
  /\ call.reject

\* The part of C15 that holds: /admin is refused to a caller who is not
\* logged in or not admin.
C15_OthersRefused ==
  /\ DecidedBelowRoot
  /\ call.req.Path = << "/", "a", "d", "m", "i", "n" >>
  /\ Starts(aPaths) /\ Starts(uPaths) /\ Starts(pPaths)
  /\ call.req.isLoggedIn /\ ~call.req.isAdmin
  /\ call.reject

\* C16: for a path that starts with no admin prefix and with a user prefix,
\* Rejected allows the request exactly when the caller is logged in,
\* whatever the public prefixes are.
C16_UserTier ==
  (DecidedBelowRoot /\ ~Starts(aPaths) /\ Starts(uPaths))
    => (call.reject <=> ~call.req.isLoggedIn)

\* C16 fails here: a logged in user asks for /data, a user prefix and no
\* admin prefix, no public prefix is a prefix of it, and the request is
\* rejected.
C16_UserRefused ==
  /\ DecidedBelowRoot
  /\ call.req.Path = << "/", "d", "a", "t", "a" >>
  /\ ~Starts(aPaths) /\ Starts(uPaths) /\ ~Starts(pPaths)
  /\ call.req.isLoggedIn
  /\ call.reject

\* The part of C16 that holds: an anonymous caller is refused a user path
\* that a public prefix matches too.
C16_AnonymousRefused ==
  /\ DecidedBelowRoot
  /\ ~Starts(aPaths) /\ Starts(uPaths) /\ Starts(pPaths)
  /\ ~call.req.isLoggedIn
  /\ call.reject

\* C17: a path that is not the public root and starts with no admin, user or
\* public prefix is rejected for every caller; with the permissions New
\* makes, an anonymous request for /unlisted is rejected.
C17_DefaultClosed ==
  /\ (DecidedBelowRoot /\ ~Starts(aPaths) /\ ~Starts(uPaths) /\ ~Starts(pPaths))
       => call.reject
  /\ ( /\ call.op = "Rejected"
       /\ perm = NewFromUserState
       /\ call.req = [Path |-> << "/", "u", "n", "l", "i", "s", "t", "e", "d" >>, isLoggedIn |-> FALSE, isAdmin |-> FALSE] )
       => call.reject

\* C17 fails here: with the permissions New makes, an anonymous request for
\* /unlisted is let through, "/" being a public prefix.
C17_UnlistedAllowed ==
  /\ call.op = "Rejected"
  /\ perm = NewFromUserState
  /\ call.req = [Path |-> << "/", "u", "n", "l", "i", "s", "t", "e", "d" >>, isLoggedIn |-> FALSE, isAdmin |-> FALSE]
  /\ ~call.reject

\* The part of C17 that holds: a path no prefix matches is rejected, for a
\* logged in admin too.
C17_UnmatchedRefused ==
  /\ DecidedBelowRoot
  /\ call.req.Path = << "/", "u", "n", "l", "i", "s", "t", "e", "d" >>
  /\ ~Starts(aPaths) /\ ~Starts(uPaths) /\ ~Starts(pPaths)
  /\ call.req.isLoggedIn /\ call.req.isAdmin
  /\ call.reject

\* C18: with rootIsPublic set, a request for exactly "/" is let through for
\* every caller and every content of the three lists.
C18_RootPublic ==
  (call.op = "Rejected" /\ perm.rootIsPublic /\ call.req.Path = << "/" >>)
    => ~call.reject

\* C18 happens: "/" is an admin prefix and no public prefix, the caller is
\* anonymous, and the request for "/" is let through.
C18_Witness ==
  /\ call.op = "Rejected"
  /\ perm.rootIsPublic
  /\ call.req = [Path |-> << "/" >>, isLoggedIn |-> FALSE, isAdmin |-> FALSE]
  /\ \E i \in 1..Len(perm.paths[aPaths]) : perm.paths[aPaths][i] = << "/" >>
  /\ perm.paths[pPaths] = << >>
  /\ ~call.reject

\* The list holds the prefix /admin.
HoldsAdmin(prefixes) ==
  \E i \in 1..Len(prefixes) : prefixes[i] = << "/", "a", "d", "m", "i", "n" >>

\* C19: with the admin prefix /admin, the paths /admin2 and /adminx are admin
\* paths as /admin/x is: each is refused to every caller who is not logged in
\* and admin.
C19_PlainPrefix ==
  ( /\ call.op = "Rejected"
    /\ HoldsAdmin(perm.paths[aPaths])
    /\ call.req.Path \in { << "/", "a", "d", "m", "i", "n", "2" >>, << "/", "a", "d", "m", "i", "n", "x" >>,
                           << "/", "a", "d", "m", "i", "n", "/", "x" >> }
    /\ ~(call.req.isLoggedIn /\ call.req.isAdmin) )
    => call.reject

\* C19 happens: with the permissions New makes, where "/" is public, a
\* logged in user who is not admin is refused /admin2.
C19_Witness ==
  /\ call.op = "Rejected"
  /\ perm = NewFromUserState
  /\ call.req = [Path |-> << "/", "a", "d", "m", "i", "n", "2" >>, isLoggedIn |-> TRUE, isAdmin |-> FALSE]
  /\ call.reject

\* C20: ServeHTTP calls one handler per request: the deny handler, and not
\* next, when Rejected is true, and next otherwise.
C20_OneHandler ==
  call.op = "ServeHTTP"
    => /\ Len(call.called) = 1
       /\ Rejected(perm, call.req)
            => call.called[1] = [from |-> "GetDenyFunc", f |-> perm.denied]
       /\ ~Rejected(perm, call.req)
            => call.called[1] = [from |-> "next", f |-> call.next]

\* C20 happens: the request is rejected and the deny handler set with
\* SetDenyFunc is the one handler called.
C20_Witness ==
  /\ call.op = "ServeHTTP"
  /\ Rejected(perm, call.req)
  /\ perm.denied = "deny"
  /\ call.next = "next"
  /\ call.called = << [from |-> "GetDenyFunc", f |-> "deny"] >>

\* C20 happens: the request is let through and next is the one handler
\* called.
C20_WitnessNext ==
  /\ call.op = "ServeHTTP"
  /\ ~Rejected(perm, call.req)
  /\ call.called = << [from |-> "next", f |-> "next"] >>


(***************************************************************************)
(* Claims on the confirmation codes                                        *)
(***************************************************************************)

\* GenerateUniqueConfirmationCode has returned.
Generated == call.op = "GenerateUniqueConfirmationCode"

\* C21: a code GenerateUniqueConfirmationCode returns with a nil error is a
\* code AlreadyHasConfirmationCode was asked about and answered false for,
\* never one it answered true for.
C21_NeverInUse ==
  (Generated /\ call.err = "nil") => call.answer = "false"

\* C21 happens: the first candidate was found in the datastore, the second
\* was not and is returned with a nil error.
C21_Witness ==
  /\ Generated
  /\ call.err = "nil"
  /\ call.taken = "stored"
  /\ call.asked = 2
  /\ Len(call.confirmationCode) = minConfirmationCodeLength + 1
  /\ call.answer = "false"


\* The confirmation codes of the users that are not confirmed.
CodesInUse == Unconfirmed(store, "ConfirmationCode")

\* C22: a code a generator returns with a nil error is the stored code of no
\* unconfirmed user, and AlreadyHasConfirmationCode answers true about every
\* code some unconfirmed user is stored with.
C22_UniqueAmongUnconfirmed ==
  /\ (Generated /\ call.taken = "stored" /\ call.err = "nil")
       => call.confirmationCode \notin CodesInUse
  /\ call.op = "GenConfirmationCode"
       => call.confirmationCode \notin CodesInUse
  /\ (call.op = "AlreadyHasConfirmationCode" /\ call.confirmationCode \in CodesInUse)
       => call.ok

\* C22 fails here: GenerateUniqueConfirmationCode returns, with a nil error, a
\* code an unconfirmed user is stored with.
C22_CodeInUse ==
  /\ Generated
  /\ call.taken = "stored"
  /\ call.err = "nil"
  /\ call.confirmationCode \in CodesInUse

\* C22 fails here: the query names the unconfirmed user, the user is stored
\* under an email that is not the username, the lookup by username fails, and
\* AlreadyHasConfirmationCode answers false about the code of that user.
C22_LookupFails ==
  /\ call.op = "AlreadyHasConfirmationCode"
  /\ call.listed.err = "nil"
  /\ Len(call.listed.usernames) > 0
  /\ ~HasUser(store, call.listed.usernames[1])
  /\ call.confirmationCode \in CodesInUse
  /\ ~call.ok

\* C22 fails here: GenConfirmationCode returns a code an unconfirmed user is
\* stored with.
C22_Unchecked ==
  /\ call.op = "GenConfirmationCode"
  /\ call.confirmationCode \in CodesInUse

\* The part of C22 that holds: a code found in the datastore is not returned.
C22_Found ==
  /\ call.op = "AlreadyHasConfirmationCode"
  /\ call.confirmationCode \in CodesInUse
  /\ call.ok


\* The number of times AlreadyHasConfirmationCode answered true to g.
Collisions(g) == IF g.answer = "false" THEN g.asked - 1 ELSE g.asked

\* What holds of a call of GenerateUniqueConfirmationCode from its first
\* candidate, minLength bytes long, to its return.
GenerateBounded(g, minLength) ==
  /\ g.first = minLength
  /\ g.length = minLength + Collisions(g)
  /\ Len(g.confirmationCode) = g.length
  /\ g.asked <= maxConfirmationCodeLength - minLength + 1
  /\ g.pc = "for" => g.length <= maxConfirmationCodeLength
  /\ (g.pc = "return" /\ g.err = "nil")
       => (minLength <= g.length /\ g.length <= maxConfirmationCodeLength)
  /\ (g.pc = "return" /\ g.taken = "every")
       => /\ g.err # "nil"
          /\ g.length = maxConfirmationCodeLength + 1
          /\ g.asked = maxConfirmationCodeLength - minLength + 1

Calls == IF call.op = "Wait" THEN call.calls ELSE proc

\* The calls that have returned nil.
Succeeded ==
  { i \in 1..Len(Calls) : Calls[i].pc = "return" /\ Calls[i].err = "nil" }

\* The call is the last of those that wrote the record of its user.
WroteLast(i) ==
  \A j \in Succeeded :
    Calls[j].username = Calls[i].username => Calls[j].turn <= Calls[i].turn

\* C24: SetUserStatus is a Get followed by a Put of the whole record, with
\* nothing to keep the two together: the stored record is the one the last
\* call to Put had read, with its one property set, whatever the other calls
\* wrote between its Get and its Put.  Two calls on the same user setting
\* different properties can so both return nil and leave one update only.
C24_LastWriteWins ==
  \A i \in Succeeded :
    WroteLast(i) =>
      store[Calls[i].username]
        = [Calls[i].got.user EXCEPT ![Calls[i].prop] = Calls[i].val]

\* C24 happens: two calls on the same user, each changing another property,
\* have both returned nil; the record holds the value of the second and, for
\* the property of the first, the value from before.
C24_LostUpdate ==
  /\ call.op = "Wait"
  /\ Len(call.calls) = 2
  /\ Succeeded = { 1, 2 }
  /\ \E i, j \in Succeeded :
       LET a == call.calls[i]
           b == call.calls[j]
       IN /\ a.turn = 1 /\ b.turn = 2
          /\ a.username = b.username
          /\ a.prop # b.prop
          /\ a.got.user[a.prop] # a.val
          /\ b.got.user[b.prop] # b.val
          /\ store[a.username][b.prop] = b.val
          /\ store[a.username][a.prop] # a.val


\* The last call was a SetUserStatus that returned nil.
StatusSet == call.op = "SetUserStatus" /\ call.err = "nil"

\* C25: a SetUserStatus(u, prop, v) that returns nil changes, of the record of
\* u, the field prop names and no other, Active set to true included, and
\* leaves every other record of the datastore as it was.
C25_OneField ==
  [][ (call'.op = "SetUserStatus" /\ call'.err = "nil")
        => /\ DOMAIN store' = DOMAIN store
           /\ \A k \in DOMAIN store :
                \A f \in DOMAIN store[k] :
                  (k # call'.username \/ f # call'.prop)
                    => store'[k][f] = store[k][f] ]_vars

\* C25 fails here: SetUserStatus(u, Active, true) returned nil for a user that
\* was logged in, and the record of u has Loggedin false.
C25_LoggedOut ==
  /\ StatusSet
  /\ call.prop = "Active"
  /\ call.val = TRUE
  /\ call.got.user.Loggedin
  /\ ~store[call.username].Loggedin
  /\ store[call.username].Active

\* The part of C25 that holds: SetUserStatus(u, Admin, true) changes Admin and
\* nothing else.
C25_AdminOnly ==
  /\ StatusSet
  /\ call.prop = "Admin"
  /\ call.val = TRUE
  /\ ~call.got.user.Admin
  /\ store[call.username] = [call.got.user EXCEPT !.Admin = TRUE]


\* A GetUserStatus that follows, with no call in between, a SetUserStatus of
\* the same property of the same user that returned nil.
ReadBack ==
  /\ call.op = "GetUserStatus"
  /\ call.set # NoCall
  /\ call.set.err = "nil"
  /\ call.id = call.set.username
  /\ call.prop = call.set.prop

\* C26: after SetUserStatus(u, prop, v) returned nil, GetUserStatus(u, prop)
\* returns v with a nil error, for prop one of Admin, Confirmed, Loggedin,
\* Active, Email and ConfirmationCode.
C26_SetThenGet ==
  (ReadBack /\ call.prop \in { "Admin", "Confirmed", "Loggedin", "Active",
                               "Email", "ConfirmationCode" })
    => call.res = [result |-> call.set.val, err |-> "nil"]

\* C26: Active was set to true and is read back as an error.
C26_ActiveUnreadable ==
  /\ ReadBack
  /\ call.prop = "Active"
  /\ call.set.val = TRUE
  /\ store[call.id].Active
  /\ call.res.err # "nil"

\* C26: a confirmation code was set with a nil error and another is read back.
C26_CodeNotSet ==
  /\ ReadBack
  /\ call.prop = "ConfirmationCode"
  /\ call.res.err = "nil"
  /\ call.res.result # call.set.val

\* C26: the round trip of the properties both switches have a case for.
C26_BothCases ==
  (ReadBack /\ call.prop \in { "Admin", "Confirmed", "Loggedin", "Email" })
    => call.res = [result |-> call.set.val, err |-> "nil"]

\* C26: Admin was set to true and true is read back.
C26_AdminReadBack ==
  /\ ReadBack
  /\ call.prop = "Admin"
  /\ call.set.val = TRUE
  /\ call.res = [result |-> TRUE, err |-> "nil"]


\* What an AddUser step owes its caller: an error and the store as it was for
\* an empty Email, Username or Password and for a password the policy rejects;
\* the record in the store when the error is nil.
AddUserChecked ==
  LET user == call'.user IN
  /\ (\/ user.Email = << >>
      \/ user.Username = << >>
      \/ user.Password = << >>
      \/ IsPasswordAllowed(user.Username, user.Password) # "nil")
       => (call'.err # "nil" /\ store' = store)
  /\ call'.err = "nil" => \E k \in DOMAIN store' : store'[k] = call'.after

\* C27: AddUser returns an error and leaves the store unchanged when Email,
\* Username or Password is empty or the password violates the policy; when it
\* returns nil the user's record is in the store.
C27_AddUserValidates ==
  [][ call'.op = "AddUser" => AddUserChecked ]_vars

\* C27: AddUser returned nil for a user with an empty field or a password the
\* policy rejects, and the store holds that user.
C27_InvalidStored ==
  /\ call.op = "AddUser"
  /\ call.err = "nil"
  /\ (\/ call.user.Email = << >>
      \/ call.user.Username = << >>
      \/ call.user.Password = << >>
      \/ IsPasswordAllowed(call.user.Username, call.user.Password) # "nil")
  /\ \E k \in DOMAIN store : store[k] = call.user

\* C27: the first version of AddUser does validate.
C27_FirstVersion ==
  [][ (impl = "current" /\ call'.op = "AddUser") => AddUserChecked ]_vars

\* C27: the first version refused a user and stored nothing.
C27_Refused ==
  /\ impl = "current"
  /\ call.op = "AddUser"
  /\ call.err # "nil"
  /\ store = EmptyStore

\* C27: the first version returned nil and the record is stored.
C27_Added ==
  /\ impl = "current"
  /\ call.op = "AddUser"
  /\ call.err = "nil"
  /\ \E k \in DOMAIN store : store[k] = call.after


\* AddUser has just returned nil.
Added == call.op = "AddUser" /\ call.err = "nil"

\* The record is reached under the name: HasUser is true and GetUser,
\* GetUserStatus and SetUserStatus succeed.
ReachableUnder(name) ==
  /\ HasUser(store, name)
  /\ GetUser(store, name).err = "nil"
  /\ GetUserStatus(St, store, name, "Admin").err = "nil"
  /\ SetUserStatus(St, store, name, "Admin", TRUE, "s").err = "nil"

\* C28: after AddUser(u) returned nil the record is reachable under
\* u.Username, also when u.Username differs from u.Email.
C28_ReachableByUsername ==
  Added => ReachableUnder(call.user.Username)

\* C28: AddUser returned nil for a user whose Username is not its Email; the
\* record is reachable under the Email and no call finds it under the Username.
C28_StoredUnderEmail ==
  /\ Added
  /\ impl = "current"
  /\ call.user.Username # call.user.Email
  /\ ReachableUnder(call.user.Email)
  /\ ~HasUser(store, call.user.Username)
  /\ GetUser(store, call.user.Username).err # "nil"
  /\ GetUserStatus(St, store, call.user.Username, "Admin").err # "nil"
  /\ SetUserStatus(St, store, call.user.Username, "Admin", TRUE, "s").err # "nil"

\* C28: HasUser answers false for the Username of a stored user.
C28_HasUserFalse ==
  /\ call.op = "HasUser"
  /\ ~call.ok
  /\ call.got.err # "nil"
  /\ \E k \in DOMAIN store : store[k].Username = call.username

\* C28: the record is reachable under the key AddUser chose, the Email.
C28_ReachableByEmail ==
  (Added /\ call.user.Email # << >>) => ReachableUnder(call.user.Email)

\* C28: AddUser returned nil for a user whose Username is its Email, and the
\* record is reachable under it.
C28_SameName ==
  /\ Added
  /\ call.user.Username = call.user.Email
  /\ ReachableUnder(call.user.Username)


(***************************************************************************)
(* Claims on the current user                                              *)
(***************************************************************************)

\* The request of the last call carries a valid cookie of a stored user who
\* is logged in and administrator.
AdminLoggedIn ==
  /\ Genuine
  /\ Origin.val \in DOMAIN store
  /\ store[Origin.val].Loggedin
  /\ store[Origin.val].Admin

\* C29: IsCurrentUserAdmin(req) returns true iff the request carries a valid
\* 'user' cookie for a user that exists in the store and whose stored Loggedin
\* and Admin flags are both true; in every other case it returns false, with
\* an error when the cookie or the user is missing.
C29_AdminIff ==
  call.op = "IsCurrentUserAdmin" =>
    /\ call.res.ok = AdminLoggedIn
    /\ (~Genuine \/ Origin.val \notin DOMAIN store) => call.res.err # "nil"

\* C29: the cookie set for "bobם4", who is no administrator, with its
\* delimiter moved is taken for the cookie of the administrator "bob".
C29_ForgedAdmin ==
  /\ call.op = "IsCurrentUserAdmin"
  /\ impl = "current"
  /\ call.how.kind = "respliced"
  /\ Origin.val = evil
  /\ DOMAIN store = { bob, evil }
  /\ ~store[evil].Admin
  /\ store[bob].Admin /\ store[bob].Loggedin
  /\ call.res = [ok |-> TRUE, err |-> "nil"]

\* C29: the second version answers false to the cookie it has just set for a
\* logged in administrator.
C29_LegacyNeverAdmin ==
  /\ call.op = "IsCurrentUserAdmin"
  /\ impl = "legacy"
  /\ AdminLoggedIn
  /\ now = Origin.at
  /\ ~call.res.ok

\* C29: in the first version, for every request but those with the delimiter
\* moved, the answer is as claimed.
C29_DelimiterInPlace ==
  (call.op = "IsCurrentUserAdmin" /\ impl = "current"
     /\ call.how.kind # "respliced")
    => /\ call.res.ok = AdminLoggedIn
       /\ (~Genuine \/ Origin.val \notin DOMAIN store) => call.res.err # "nil"

\* C29: the first version answers true to the cookie of a logged in
\* administrator.
C29_Admin ==
  /\ call.op = "IsCurrentUserAdmin"
  /\ impl = "current"
  /\ AdminLoggedIn
  /\ call.res = [ok |-> TRUE, err |-> "nil"]


\* What the cookie layer of the version in use reads from the last line of the
\* response, sent back as it is: the payload, or nothing when it is refused.
Decoded(header) ==
  LET line == header[Len(header)]
      req == << [Name |-> line.Name, Value |-> line.Value] >>
  IN IF impl = "current"
     THEN LET got == SecureGet(St, req, "user", now)
          IN IF got.err = "nil" THEN << got.val >> ELSE << >>
     ELSE LET got == CookiesGet(req, "user", secure.Secret, now)
          IN IF got.ok THEN << got.val >> ELSE << >>

\* C30: Login(w, u) returns an error, sets no cookie and leaves Loggedin
\* unchanged when u does not exist or u.Active is false; when it returns nil,
\* u's stored Loggedin is true and the response carries a 'user' cookie that
\* decodes to u.
C30_Login ==
  [][ call'.op = "Login" =>
        LET u == call'.username IN
        /\ (u \notin DOMAIN store \/ ~store[u].Active)
             => /\ call'.err # "nil"
                /\ w' = w
                /\ DOMAIN store' = DOMAIN store
                /\ u \in DOMAIN store => store'[u].Loggedin = store[u].Loggedin
        /\ call'.err = "nil"
             => /\ u \in DOMAIN store'
                /\ store'[u].Loggedin
                /\ Len(w') = Len(w) + 1
                /\ w'[Len(w')].Name = "user"
                /\ Decoded(w') = << u >> ]_vars

\* C30: Login returned nil; the user is logged in and the response holds the
\* cookie of the user.
C30_LoggedIn ==
  /\ call.op = "Login"
  /\ call.err = "nil"
  /\ store[call.username].Active
  /\ store[call.username].Loggedin
  /\ Len(w) = 1
  /\ Decoded(w) = << call.username >>

\* C30: Login returned an error for a user who is not active; the response
\* is empty and the user is not logged in.
C30_Inactive ==
  /\ call.op = "Login"
  /\ call.err # "nil"
  /\ call.username \in DOMAIN store
  /\ ~store[call.username].Active
  /\ ~store[call.username].Loggedin
  /\ w = << >>

\* C30: Login returned an error for a user who does not exist.
C30_NoUser ==
  /\ call.op = "Login"
  /\ call.err = ErrKeyNotFound
  /\ call.username \notin DOMAIN store
  /\ w = << >>


(***************************************************************************)
(* Claims on the lookup by confirmation code                               *)
(***************************************************************************)

\* The last call was GetUserByConfirmationCode (FindUserByConfirmationCode).
Looked == call.op = "GetUserByConfirmationCode"

C31_ConfirmedRefused ==
  /\ Looked
  /\ call.listed.err = "nil"
  /\ \E k \in DOMAIN store :
       store[k].Confirmed /\ store[k].ConfirmationCode = call.confirmationCode
  /\ call.res.err # "nil"
  /\ call.res.username = << >>

\* C31: the unconfirmed user stored with the code is returned.
C31_Found ==
  /\ Looked
  /\ call.res.err = "nil"
  /\ call.res.username = bob
  /\ ~store[bob].Confirmed
  /\ store[bob].ConfirmationCode = call.confirmationCode


C31_NamesAreKeys ==
  (Looked /\ \A k \in DOMAIN store : store[k].Username = k)
    => /\ call.res.err = "nil"
            => \E k \in DOMAIN store :
                 /\ store[k].Username = call.res.username
                 /\ ~store[k].Confirmed
                 /\ store[k].ConfirmationCode = call.confirmationCode
       /\ call.confirmationCode \notin CodesInUse => call.res.err # "nil"


(***************************************************************************)
(* Claims on the deletion of a cookie                                      *)
(***************************************************************************)

\* The line Del writes for a cookie name: the placeholder value, an expiry
\* at the start of 1970.
Expired(name) ==
  [Name |-> name, Value |-> ignoredContent, Expires |-> 0, Path |-> "/"]

\* C32: Del writes the named cookie with a placeholder value and an expiry
\* already past, whatever the response holds and without reading it, and it
\* replaces the Set-Cookie header: after SetPath and Del on the same response
\* the response carries exactly one Set-Cookie line, the expired one, and a
\* line added earlier for another cookie name is gone.
C32_DelReplaces ==
  [][ call'.op = "Del"
        => /\ w' = << Expired(call'.name) >>
           /\ w'[1].Expires < now
           /\ SecureGet(secure, << [Name |-> w'[1].Name, Value |-> w'[1].Value] >>,
                        call'.name, now).val = << >>
           /\ \A i \in 1..Len(w') : w'[i].Name = call'.name ]_vars

\* C32: the response held the cookie that is deleted and a cookie of another
\* name, both set by SetPath; after Del it holds the expired line alone.
C32_OtherNameGone ==
  /\ call.op = "Del"
  /\ Len(call.before) = 2
  /\ call.before[1].Name # call.name
  /\ call.before[2].Name = call.name
  /\ w = << Expired(call.name) >>

\* C32: Del on a response that holds nothing writes the expired line too.
C32_NothingToDelete ==
  /\ call.op = "Del"
  /\ call.before = << >>
  /\ w = << Expired(call.name) >>


(***************************************************************************)
(* Claims on logging in and out                                            *)
(***************************************************************************)

\* C33: after any sequence of Login, Logout and SetUserStatus(u, Active, v)
\* calls no stored user has Loggedin = true while Active = false:
\* SetUserStatus(u, Active, false) leaves or makes the user logged out.
C33_InactiveLoggedOut ==
  \A k \in DOMAIN store : store[k].Loggedin => store[k].Active

\* C33 fails here: a logged in user is deactivated and stays logged in.
C33_StillLoggedIn ==
  /\ StatusSet
  /\ call.prop = "Active"
  /\ call.val = FALSE
  /\ call.got.user.Loggedin
  /\ call.got.user.Active
  /\ store[call.username].Loggedin
  /\ ~store[call.username].Active

\* C33: Login makes no inactive user logged in.
C33_LoginActiveOnly ==
  (call.op = "Login" /\ call.err = "nil")
    => store[call.username].Loggedin /\ store[call.username].Active


\* The request of the last IsCurrentUserAdmin carries the still valid cookie
\* of a stored user who is not logged in.
CookieOfLoggedOut ==
  /\ call.op = "IsCurrentUserAdmin"
  /\ Genuine
  /\ Origin.val \in DOMAIN store
  /\ ~store[Origin.val].Loggedin

\* A Logout that returns nil changes the Loggedin field of its user and
\* nothing else.
LogoutFrame ==
  (call'.op = "Logout" /\ call'.err = "nil")
    => store' = IF call'.username \in DOMAIN store
                THEN [store EXCEPT ![call'.username].Loggedin = FALSE]
                ELSE store

\* Loggedin goes from false to true by Login and SetUserStatus alone.
LoggedInAgain ==
  \A k \in DOMAIN store :
    (k \in DOMAIN store' /\ ~store[k].Loggedin /\ store'[k].Loggedin)
      => call'.op \in { "Login", "SetUserStatus" }

\* ClearCookie changes nothing in the datastore.
ClearCookieFrame ==
  call'.op = "ClearCookie" => store' = store

\* C34: Logout revokes the administrator's access in the datastore and leaves
\* the cookie alone: from a Logout(u) that returned nil until Login or
\* SetUserStatus sets Loggedin to true again, IsCurrentUserAdmin returns false
\* for a request carrying u's still valid cookie, also when u.Admin is true;
\* Logout changes the Loggedin field of u alone and ClearCookie changes nothing
\* in the datastore.
C34_LogoutRevokes ==
  /\ [](CookieOfLoggedOut => ~call.res.ok)
  /\ [][LogoutFrame /\ LoggedInAgain /\ ClearCookieFrame]_vars

\* C34: the administrator logged in and is no longer logged in; the cookie
\* Login set is sent back as it was, still valid, and the first version
\* answers false with a nil error.
C34_CookieOutlivesLogin ==
  /\ CookieOfLoggedOut
  /\ impl = "current"
  /\ store[Origin.val].Admin
  /\ store[Origin.val].Active
  /\ call.res = [ok |-> FALSE, err |-> "nil"]

\* C34: Logout returned nil for a logged in administrator whose cookie is on
\* the response, and the response is as it was.
C34_LoggedOut ==
  /\ call.op = "Logout"
  /\ call.err = "nil"
  /\ call.username \in DOMAIN store
  /\ store[call.username].Admin
  /\ ~store[call.username].Loggedin
  /\ Len(w) = 1
  /\ issued[1].op = "SetPath"
  /\ issued[1].val = call.username


(***************************************************************************)
(* Claims on registering again                                             *)
(***************************************************************************)

\* The last call was AddUser with the object of the AddUser before it, and
\* both returned nil.
AddedAgain == call.op = "AddUserAgain" /\ call.err = "nil"

\* C35: AddUser is idempotent with respect to the credential: after AddUser
\* was called twice with the same user object, CheckUserPassword is true for
\* the original password, and the stored Password is the one the first call
\* wrote into the object, not a hash of it.
C35_AddUserIdempotent ==
  AddedAgain =>
    /\ CheckUserPassword(St, store, call.first.Username, call.first.Password)
    /\ store[call.first.Email].Password = call.user.Password

\* C35: the first version stored the hash of the hash the first call wrote
\* into the object; the password the user chose is refused, the first hash
\* taken for a password is accepted.
C35_HashedTwice ==
  /\ AddedAgain
  /\ impl = "current"
  /\ call.first.Password = strong
  /\ \E s \in Salts, t \in Salts :
       /\ call.user.Password = HashBcrypt(strong, s)
       /\ store[bob].Password = HashBcrypt(HashBcrypt(strong, s), t)
  /\ ~CheckUserPassword(St, store, bob, strong)
  /\ CheckUserPassword(St, store, bob, call.user.Password)

\* C35: after the first AddUser the password the user chose is accepted.
C35_AddedOnce ==
  /\ call.op = "AddUser"
  /\ call.err = "nil"
  /\ impl = "current"
  /\ CheckUserPassword(St, store, bob, call.user.Password)


\* The last step was AddUser for a key that held a record.
AddUserOver ==
  /\ call'.op \in { "AddUser", "AddUserAgain" }
  /\ call'.user.Email \in DOMAIN store

\* C36: AddUser on a key that already holds a record makes no existence
\* check: it returns what it returns on an empty datastore, nil for a user
\* that passes its checks, and then the record under the key is the new user
\* object, its Admin, Confirmed, Loggedin and Active flags and its password
\* (hashed, in the first version) in place of those of the record before; no
\* other record changes.
C36_AddUserReplaces ==
  [][AddUserOver =>
       /\ call'.err = AddUser(St, EmptyStore, call'.user, "s").err
       /\ call'.err = "nil" =>
            /\ store' = [store EXCEPT ![call'.user.Email] = call'.after]
            /\ \A f \in { "Admin", "Confirmed", "Loggedin", "Active" } :
                 store'[call'.user.Email][f] = call'.user[f]
            /\ IF impl = "current"
               THEN \E salt \in Salts :
                      store'[call'.user.Email].Password
                        = HashBcrypt(call'.user.Password, salt)
               ELSE store'[call'.user.Email].Password = call'.user.Password]_vars

\* C36: a logged in, confirmed and active administrator was registered again
\* with another password: AddUser returned nil, the flags are all false and
\* the password hash is another.
C36_AdminReplaced ==
  /\ call.op = "AddUser"
  /\ call.err = "nil"
  /\ impl = "current"
  /\ call.had.err = "nil"
  /\ call.had.user.Admin /\ call.had.user.Confirmed
  /\ call.had.user.Loggedin /\ call.had.user.Active
  /\ \E s \in Salts : call.had.user.Password = HashBcrypt(strong, s)
  /\ call.user.Password = strong2
  /\ store[bob] = call.after
  /\ ~store[bob].Admin /\ ~store[bob].Confirmed
  /\ ~store[bob].Loggedin /\ ~store[bob].Active
  /\ CheckUserPassword(St, store, bob, strong2)
  /\ ~CheckUserPassword(St, store, bob, strong)

\* C36: AddUser refused a user over a record for the password, as it does on
\* an empty datastore, and the record is as it was.
C36_RefusedOver ==
  /\ call.op = "AddUser"
  /\ call.err = short
  /\ call.had.err = "nil"
  /\ store[bob] = call.had.user


(***************************************************************************)
(* Claims on Login and its errors                                          *)
(***************************************************************************)

\* Login returned an error for a user who had a record when it was called.
LoginFailed ==
  /\ call.op = "Login"
  /\ call.err # "nil"
  /\ call.had.err = "nil"

\* C37: Login is all or nothing: when Login(w, u) returns an error, the
\* stored Loggedin flag of u is what it was before the call, also when the
\* error comes from writing the cookie after the flag was set.
C37_LoginAllOrNothing ==
  (LoginFailed /\ call.username \in DOMAIN store)
    => store[call.username].Loggedin = call.had.user.Loggedin

\* C37: under the empty secret Login returned the error of SetPath and wrote
\* no cookie; the user, who was not logged in, is stored as logged in.
C37_FlagLeftSet ==
  /\ LoginFailed
  /\ secure.Secret = << >>
  /\ call.err = IF impl = "current" THEN "Cookie secret not valid" ELSE ErrNoCookie
  /\ impl = "current"
  /\ Len(w) = 0
  /\ ~call.had.user.Loggedin
  /\ call.had.user.Active
  /\ call.username \in DOMAIN store
  /\ store[call.username].Loggedin

\* C37: the record was deleted after Login set the flag: Login returned the
\* error of SetUsernameIntoCookie and no record is left.
C37_RecordGone ==
  /\ LoginFailed
  /\ call.err = "Can't store cookie for non-existing user"
  /\ call.had.user.Active
  /\ call.username \notin DOMAIN store

\* C37: Login refused an inactive user and left the flag as it was.
C37_Refused ==
  /\ LoginFailed
  /\ call.err = "Username is not registered"
  /\ call.had.user.Loggedin
  /\ store[call.username] = call.had.user

=============================================================================
